---- MODULE Spec2Model ----
(***************************************************************************)
(* The VC portfolio server: the relational store (shared/schema), the      *)
(* storage layer, the auth middleware, the route table and the             *)
(* controllers, as a state machine.  A request runs as a chain of steps    *)
(* (authenticateToken, a role guard, the handler); every step is one       *)
(* middleware or handler call; the nested company update is split further  *)
(* at its awaits, where another request can run in between.                *)
(***************************************************************************)
EXTENDS Integers, Sequences, FiniteSets, TLC

VARIABLES
    users,          \* rows of table users
    founders,       \* rows of table founders
    companies,      \* rows of table portfolio_companies
    fundraising,    \* rows of table fundraising
    revenue,        \* rows of table company_revenue
    adminSnapshots, \* rows of table admin_snapshots
    mentors,        \* rows of table brain_trust_mentors
    nextId,         \* per table, the next fresh primary key (crypto.randomUUID)
    reqs,           \* per connection slot, the request being served (or served last)
    nreq,           \* number of requests received so far
    now,            \* the server's clock, in hours
    client          \* the browser: auth context, location and page shown

db   == <<users, founders, companies, fundraising, revenue, adminSnapshots, mentors, nextId>>
vars == <<users, founders, companies, fundraising, revenue, adminSnapshots, mentors, nextId,
          reqs, nreq, now, client>>

(* ------------------------------ bounds -------------------------------- *)

\* Requests received in one behaviour of Spec.
MaxRequests == 1
\* User rows removed from the store in one behaviour.
MaxDeleted == 1
\* Nested company updates received in one behaviour of SpecPatch.
MaxPatches == 2

\* Requests of the create-then-read scenario.
MaxRoundTrips == 2
\* Requests of an admin who clears a company out and deletes it.
MaxDeletes == 3

\* Hours the clock of SpecToken runs for.
MaxClock == 36
\* Requests received in one behaviour of SpecToken.
MaxTokenUses == 3
\* Requests received in one behaviour of SpecStale.
MaxStale == 3
\* Requests received in one behaviour of SpecGuards.
MaxGuarded == 2
\* Requests received in one behaviour of SpecRead.
MaxReads == 3
\* Login forms submitted in one behaviour of SpecClient.
MaxLogins == 2
\* User rows changed in the store in one behaviour.
MaxChanged == 1

(* --------------------------- value domains ----------------------------- *)

\* JavaScript's undefined and null.
Undefined == "undefined"
Null      == "null"

\* crypto.randomUUID(): the n-th key generated for a table; keys are opaque
\* strings and never repeat.
Uuid(n) ==
    <<"id1", "id2", "id3", "id4", "id5", "id6", "id7", "id8", "id9", "id10", "id11",
      "id12", "id13", "id14", "id15", "id16">>[n]

ADMIN             == "ADMIN"
PORTFOLIO_COMPANY == "PORTFOLIO_COMPANY"
Roles             == {ADMIN, PORTFOLIO_COMPANY}
CompanyStatus     == {"ACTIVE", "EXITED", "ON_HOLD"}

Slots == {"s1", "s2"}

\* bcrypt: a salted one-way hash; compare(p, h) holds exactly when h was made from p.
BcryptHash(password) == <<"bcrypt", password>>
\* Variant of BcryptCompare that accepts every password.
BcryptCompareAnything(password, hash) == TRUE
BcryptCompare(password, hash) == hash = BcryptHash(password)

\* expiresIn: "24h"
TokenLife == 24

(* ------------------------------ storage -------------------------------- *)

\* The user rows the store starts with: two admins (one of them a founder
\* too) and one portfolio user per kind of founder link.
SeedUsers ==
    {[id |-> "id1", email |-> "admin@vc", passwordHash |-> BcryptHash("pw"),
      role |-> ADMIN, founderId |-> Null],
     [id |-> "id2", email |-> "p@c1", passwordHash |-> BcryptHash("pw"),
      role |-> PORTFOLIO_COMPANY, founderId |-> "id1"],
     [id |-> "id3", email |-> "q@none", passwordHash |-> BcryptHash("pw"),
      role |-> PORTFOLIO_COMPANY, founderId |-> Null],
     [id |-> "id4", email |-> "r@unassigned", passwordHash |-> BcryptHash("pw"),
      role |-> PORTFOLIO_COMPANY, founderId |-> "id3"],
     [id |-> "id5", email |-> "partner@vc", passwordHash |-> BcryptHash("pw"),
      role |-> ADMIN, founderId |-> "id2"]}

Ids(table) == {r.id : r \in table}
RowsById(table, id) == {r \in table : r.id = id}
RowsByCompany(table, cid) == {r \in table : r.companyId = cid}

\* users.email is declared unique(): an insert of a taken email is refused.
EmailTaken(email) == \E u \in users : u.email = email

\* A foreign key column: null (when nullable) or the key of an existing row.
FkOk(value, table) == value = Null \/ value \in Ids(table)

\* Variant of CompanyReferenced for tables declared without references().
CompanyNeverReferenced(cid) == FALSE

\* delete from portfolio_companies: the references to it carry no ON DELETE
\* action, so the store refuses while a row still points at the company.
CompanyReferenced(cid) ==
    \/ RowsByCompany(founders, cid) # {}
    \/ RowsByCompany(fundraising, cid) # {}
    \/ RowsByCompany(revenue, cid) # {}
    \/ RowsByCompany(adminSnapshots, cid) # {}

\* Variant of Patch that writes the whole patch, undefined fields included.
PatchWholeRow(row, patch) ==
    [f \in DOMAIN row |-> IF f \in DOMAIN patch THEN patch[f] ELSE row[f]]

\* update(...).set(patch).where(eq(id)): the fields of patch that are not
\* undefined overwrite the row's; rows with another id are left alone.
Patch(row, patch) ==
    [f \in DOMAIN row |->
        IF f \in DOMAIN patch /\ patch[f] # Undefined THEN patch[f] ELSE row[f]]
UpdateRows(table, id, patch) ==
    {IF r.id = id THEN Patch(r, patch) ELSE r : r \in table}

\* Variant of getUserByEmail that finds nobody.
getUserByEmailMisses(email) == {}

\* Variant of getFoundersByCompanyId without the where clause.
getFoundersOfAnyCompany(cid) == founders

\* Variant of getUserById that answers from the rows read at start-up.
getUserByIdCached(id) == RowsById(SeedUsers, id)

\* getUserById / getUserByEmail / getFounderById: the matching rows (at most one,
\* the columns are unique); the caller takes the first or undefined.
getUserById(id) == RowsById(users, id)
getUserByEmail(email) == {u \in users : u.email = email}
getFounderById(id) == RowsById(founders, id)
getFoundersByCompanyId(cid) == RowsByCompany(founders, cid)
getAdminSnapshotByCompanyId(cid) == RowsByCompany(adminSnapshots, cid)
\* Variant of getFundraisingByCompanyId without the where clause.
getFundraisingOfAll(cid) == fundraising
getFundraisingByCompanyId(cid) == RowsByCompany(fundraising, cid)
getRevenueByCompanyId(cid) == RowsByCompany(revenue, cid)

\* founders[0] of a select with no ORDER BY: any of the matching rows.
FirstOf(rows) == IF rows = {} THEN {Undefined} ELSE Ids(rows)

(* ----------------------------- route table ----------------------------- *)

\* registerRoutes: handler |-> the middleware in front of it and the name of
\* its path parameter.  gate: "none" (public), "auth" (authenticateToken only),
\* a role (requireRole(role)) or "own" (requireAdminOrOwnCompany).
Route(gate, param) == [gate |-> gate, param |-> param]
Routes ==
    [login                   |-> Route("none", "none"),
     register                |-> Route(ADMIN, "none"),
     getAllCompanies         |-> Route(ADMIN, "none"),
     getCompanyById          |-> Route("own", "id"),
     createCompany           |-> Route(ADMIN, "none"),
     updateCompany           |-> Route("own", "id"),
     deleteCompany           |-> Route(ADMIN, "id"),
     getMyCompany            |-> Route(PORTFOLIO_COMPANY, "none"),
     getFounderByCompany     |-> Route("own", "companyId"),
     updateFounder           |-> Route("own", "id"),
     getFundraisingByCompany |-> Route("own", "companyId"),
     createFundraising       |-> Route("own", "companyId"),
     updateFundraising       |-> Route("own", "id"),
     deleteFundraising       |-> Route("own", "id"),
     getRevenueByCompany     |-> Route("own", "companyId"),
     createRevenue           |-> Route("own", "companyId"),
     updateRevenue           |-> Route("own", "id"),
     deleteRevenue           |-> Route("own", "id"),
     getAllBrainTrustMentors |-> Route("auth", "none"),
     getBrainTrustMentorById |-> Route("auth", "id"),
     createBrainTrustMentor  |-> Route(ADMIN, "none"),
     updateBrainTrustMentor  |-> Route(ADMIN, "id"),
     deleteBrainTrustMentor  |-> Route(ADMIN, "id")]
RouteNames == DOMAIN Routes

\* registerRoutes: the method and path each handler is registered under.
Call(verb, path) == [verb |-> verb, path |-> path]
Registered ==
    [login                   |-> Call("POST", "/api/auth/login"),
     register                |-> Call("POST", "/api/auth/register"),
     getAllCompanies         |-> Call("GET", "/api/companies"),
     getCompanyById          |-> Call("GET", "/api/companies/:id"),
     createCompany           |-> Call("POST", "/api/companies"),
     updateCompany           |-> Call("PUT", "/api/companies/:id"),
     deleteCompany           |-> Call("DELETE", "/api/companies/:id"),
     getMyCompany            |-> Call("GET", "/api/my-company"),
     getFounderByCompany     |-> Call("GET", "/api/companies/:companyId/founder"),
     updateFounder           |-> Call("PUT", "/api/founders/:id"),
     getFundraisingByCompany |-> Call("GET", "/api/companies/:companyId/fundraising"),
     createFundraising       |-> Call("POST", "/api/companies/:companyId/fundraising"),
     updateFundraising       |-> Call("PUT", "/api/fundraising/:id"),
     deleteFundraising       |-> Call("DELETE", "/api/fundraising/:id"),
     getRevenueByCompany     |-> Call("GET", "/api/companies/:companyId/revenue"),
     createRevenue           |-> Call("POST", "/api/companies/:companyId/revenue"),
     updateRevenue           |-> Call("PUT", "/api/revenue/:id"),
     deleteRevenue           |-> Call("DELETE", "/api/revenue/:id"),
     getAllBrainTrustMentors |-> Call("GET", "/api/brain-trust-mentors"),
     getBrainTrustMentorById |-> Call("GET", "/api/brain-trust-mentors/:id"),
     createBrainTrustMentor  |-> Call("POST", "/api/brain-trust-mentors"),
     updateBrainTrustMentor  |-> Call("PUT", "/api/brain-trust-mentors/:id"),
     deleteBrainTrustMentor  |-> Call("DELETE", "/api/brain-trust-mentors/:id")]

\* The handlers Express finds for a method and a path.
Dispatch(call) == {h \in RouteNames : Registered[h] = call}

\* The calls the client makes for a company: EditCompanyModal sends PUT,
\* ComprehensiveEditCompanyModal sends PATCH with the nested body.
ClientCalls == {Call("PUT", "/api/companies/:id"), Call("PATCH", "/api/companies/:id")}

\* The route of the nested updateCompany: registerRoutes puts updateCompany
\* at /api/companies/:id behind authenticateToken and requireAdminOrOwnCompany
\* (the client's ComprehensiveEditCompanyModal sends the nested body there).
PatchRoute == Route("own", "id")
RouteOf(name) == IF name = "patchCompany" THEN PatchRoute ELSE Routes[name]

\* The table a route's path parameter names a row of, and that table's key counter.
ParamTable(route) ==
    CASE route \in {"updateFounder"} -> founders
      [] route \in {"updateFundraising", "deleteFundraising"} -> fundraising
      [] route \in {"updateRevenue", "deleteRevenue"} -> revenue
      [] route \in {"getBrainTrustMentorById", "updateBrainTrustMentor",
                    "deleteBrainTrustMentor"} -> mentors
      [] OTHER -> companies
ParamCounter(route) ==
    CASE route \in {"updateFounder"} -> nextId.founders
      [] route \in {"updateFundraising", "deleteFundraising"} -> nextId.fundraising
      [] route \in {"updateRevenue", "deleteRevenue"} -> nextId.revenue
      [] route \in {"getBrainTrustMentorById", "updateBrainTrustMentor",
                    "deleteBrainTrustMentor"} -> nextId.mentors
      [] OTHER -> nextId.companies

(* ------------------------------ requests ------------------------------- *)

\* A part of the request the server has not read yet.
Unread == "unread"
\* A field value of the wrong type for its column.
Invalid == "invalid"

NoUser == [id |-> Undefined, email |-> Undefined, role |-> Undefined, founderId |-> Undefined]
NoBody ==
    [companyId |-> Unread, val |-> Unread, valid |-> TRUE,
     email |-> Unread, password |-> Unread, role |-> Unread, founderId |-> Unread]
NoPayload ==
    [legalName |-> Undefined, website |-> Undefined, founder |-> <<>>,
     fundraising |-> <<>>, revenue |-> <<>>, adminSnapshot |-> <<>>]
NoLocal == [i |-> 0, founder |-> Undefined, snapshot |-> Undefined]
NoToken == [kind |-> "none", uid |-> Undefined, exp |-> 0]
\* No token in a response body.
NoJwt == [uid |-> Undefined, email |-> Undefined, role |-> Undefined, iat |-> 0, exp |-> 0]
\* What a response body carries besides the status: the company and the
\* founder it returns, the token it issues (named by its user), its message.
NoRes ==
    [company |-> Undefined, founder |-> <<>>, fundraising |-> {}, revenue |-> {},
     adminSnapshot |-> <<>>, token |-> NoJwt, user |-> Undefined,
     message |-> Undefined]
Idle ==
    [verb |-> "none", path |-> "none",
     route |-> "none", tok |-> NoToken, pid |-> Undefined, body |-> NoBody,
     payload |-> NoPayload, local |-> NoLocal,
     pc |-> "idle", user |-> NoUser, status |-> 0, ran |-> FALSE, res |-> NoRes]

\* The Authorization header of a request as authenticateToken reads it:
\* absent, "Bearer" with nothing after it, or a token; a token is forged or
\* tampered (bad signature), issued so long ago that its expiry has passed,
\* or good, carrying the id of the user it was issued to and its expiry
\* (exp).  Every user row was handed a token when it logged in or was
\* registered; the header of a user who has just logged in carries a token
\* issued now.
Tokens ==
    {[kind |-> k, uid |-> Undefined, exp |-> 0] :
        k \in {"none", "noTokenPart", "badSignature", "expired"}}
    \cup {[kind |-> "ok", uid |-> Uuid(n), exp |-> now + TokenLife] : n \in 1..(nextId.users - 1)}

\* req.params of a request to `route`: the key of an existing row of the
\* table the path names, or a key no row has.
PathIds(route) ==
    IF RouteOf(route).param = "none" THEN {Undefined}
    ELSE Ids(ParamTable(route)) \cup {Uuid(ParamCounter(route))}

\* req.body.companyId: absent, null, or a company key (the last one unused).
BodyCompanyIds == {Undefined, Null} \cup Ids(companies) \cup {Uuid(nextId.companies)}

\* The other fields of a JSON body: all there and well typed, the required
\* ones left out, or one of the wrong type.
BodyFields ==
    {[val |-> "b", valid |-> TRUE], [val |-> Undefined, valid |-> TRUE],
     [val |-> "b", valid |-> FALSE]}

\* req.body as a handler reads it: the body is drawn when the code first reads
\* it, companyId by requireAdminOrOwnCompany if that read it before.
ReadBody(r, readsCompanyId) ==
    {[r.body EXCEPT !.companyId = c, !.val = f.val, !.valid = f.valid] :
        c \in IF readsCompanyId /\ r.body.companyId = Unread
              THEN BodyCompanyIds ELSE {r.body.companyId},
        f \in BodyFields}

LoginBodies ==
    {[NoBody EXCEPT !.email = e, !.password = p] :
        e \in {"admin@vc", "p@c1", "nobody@c2", "notanemail"}, p \in {"pw", "wrong", ""}}
RegisterBodies ==
    {[NoBody EXCEPT !.email = e, !.password = "pw", !.role = r, !.founderId = f,
                    !.valid = v] :
        e \in {"p@c1", "new@c2"}, r \in Roles, f \in {Null, "id2", Uuid(nextId.founders)},
        v \in BOOLEAN}

\* The browser when the application is first opened: the auth context is
\* loading, nothing was saved by saveAuth yet.  user is the role of the
\* signed-in user and saved the role of the user in localStorage, Undefined
\* when there is none; pending is the role a finished login will redirect by.
Browser ==
    [isLoading |-> TRUE, user |-> Undefined, saved |-> Undefined, path |-> "/",
     shown |-> "Loading", pending |-> Undefined]

\* Variant of ProtectedRoute that ignores requireRole.
ProtectedRouteAnyRole(isLoading, user, requireRole, children) ==
    IF isLoading THEN "Loading"
    ELSE IF user = Undefined THEN "nothing"
    ELSE children

\* What ProtectedRoute renders: the spinner, null ("nothing") or its children.
ProtectedRoute(isLoading, user, requireRole, children) ==
    IF isLoading THEN "Loading"
    ELSE IF user = Undefined THEN "nothing"
    ELSE IF requireRole # Undefined /\ user # requireRole THEN "nothing"
    ELSE children

\* The condition under which the effect of ProtectedRoute calls
\* setLocation("/login").
RedirectsToLogin(isLoading, user, requireRole) ==
    \/ ~isLoading /\ user = Undefined
    \/ ~isLoading /\ user # Undefined /\ requireRole # Undefined /\ user # requireRole

\* The <Switch> of Router: the first route matching the location.
RouteFor(path) ==
    CASE path = "/login" -> [protected |-> FALSE, requireRole |-> Undefined, page |-> "Login"]
      [] path = "/admin" -> [protected |-> TRUE, requireRole |-> ADMIN, page |-> "AdminDashboard"]
      [] path = "/dashboard" ->
            [protected |-> TRUE, requireRole |-> PORTFOLIO_COMPANY, page |-> "PortfolioDashboard"]
      [] path = "/" -> [protected |-> TRUE, requireRole |-> Undefined, page |-> "AdminDashboard"]
      [] OTHER -> [protected |-> FALSE, requireRole |-> Undefined, page |-> "NotFound"]

\* The page on the screen for a browser state c.
Render(c) ==
    LET route == RouteFor(c.path)
    IN [c EXCEPT !.shown = IF route.protected
                           THEN ProtectedRoute(c.isLoading, c.user, route.requireRole,
                                               route.page)
                           ELSE route.page]

(* ------------------------------- Init ---------------------------------- *)

\* A store the server can be in: two companies, each with a funding round,
\* the first with two founders and the second with none yet, a founder not
\* assigned to a company, two admins (one of them a founder too), one
\* portfolio user per kind of founder link, and a mentor.
Init ==
    /\ companies = {[id |-> "id1", legalName |-> "a", website |-> "a"],
                    [id |-> "id2", legalName |-> "a", website |-> "a"]}
    /\ founders = {[id |-> "id1", firstName |-> "a", companyId |-> "id1"],
                   [id |-> "id2", firstName |-> "a", companyId |-> "id1"],
                   [id |-> "id3", firstName |-> "a", companyId |-> Null]}
    /\ users = SeedUsers
    /\ fundraising = {[id |-> "id1", amountUSD |-> "a", companyId |-> "id1"],
                      [id |-> "id2", amountUSD |-> "a", companyId |-> "id2"]}
    /\ revenue = {[id |-> "id1", year |-> "a", companyId |-> "id2"]}
    /\ adminSnapshots = {}
    /\ mentors = {[id |-> "id1", name |-> "a"]}
    /\ nextId = [users |-> 6, founders |-> 4, companies |-> 3, fundraising |-> 3,
                 revenue |-> 2, adminSnapshots |-> 1, mentors |-> 2]
    /\ reqs = [s \in Slots |-> Idle]
    /\ nreq = 0
    /\ now = 0
    /\ client = Browser

(* --------------------------- a request arrives -------------------------- *)

\* The first middleware of a route.
FirstPc(route) == IF RouteOf(route).gate = "none" THEN "handler" ELSE "auth"

\* A client sends a request to one of the routes of registerRoutes: the
\* request line and the headers.
Receive(s) ==
    /\ reqs[s].pc \in {"idle", "done"}
    /\ nreq < MaxRequests
    /\ \E route \in RouteNames, tok \in Tokens :
         \E pid \in PathIds(route) :
            reqs' = [reqs EXCEPT ![s] =
                        [Idle EXCEPT !.verb = Registered[route].verb,
                                     !.path = Registered[route].path,
                                     !.route = route, !.tok = tok, !.pid = pid,
                                     !.pc = FirstPc(route)]]
    /\ nreq' = nreq + 1 /\ UNCHANGED <<now, client>>
    /\ UNCHANGED db

\* Variant of Respond without the return: the guard answers and calls next().
RespondAndGoOn(s, r, code) ==
    reqs' = [reqs EXCEPT ![s] = [r EXCEPT !.pc = "handler", !.status = code]]

\* res.status(code).json(...) in a middleware: the request goes no further.
Respond(s, r, code) == reqs' = [reqs EXCEPT ![s] = [r EXCEPT !.pc = "done", !.status = code]]

(* ------------------------------ middleware ------------------------------ *)

\* jwt.verify throws on a token whose exp is not in the future.
Expired(tok) == tok.kind = "expired" \/ (tok.kind = "ok" /\ now >= tok.exp)

\* What authenticateToken answers, 0 standing for next().
\* Variant of AuthStatus in which jwt.verify does not check the expiry.
AuthStatusIgnoresExpiry(tok) ==
    IF tok.kind \in {"none", "noTokenPart"} THEN 401
    ELSE IF tok.kind = "badSignature" THEN 403
    ELSE IF getUserById(tok.uid) = {} THEN 401
    ELSE 0

\* Variant of AuthStatus in which the missing user is reported by the catch
\* block.
AuthStatusMissingUserInCatch(tok) ==
    IF tok.kind \in {"none", "noTokenPart"} THEN 401
    ELSE IF tok.kind = "badSignature" \/ Expired(tok) THEN 403
    ELSE IF getUserById(tok.uid) = {} THEN 403
    ELSE 0

AuthStatus(tok) ==
    IF tok.kind \in {"none", "noTokenPart"} THEN 401
    ELSE IF tok.kind = "badSignature" \/ Expired(tok) THEN 403
    ELSE IF getUserById(tok.uid) = {} THEN 401
    ELSE 0

\* req.user as authenticateToken builds it from the stored user row.
ReqUser(u) ==
    [id |-> u.id, email |-> u.email, role |-> u.role,
     founderId |-> IF u.founderId = Null THEN Undefined ELSE u.founderId]

\* The middleware after authenticateToken.
AfterAuth(route) ==
    IF RouteOf(route).gate = "auth" THEN "handler"
    ELSE IF RouteOf(route).gate = "own" THEN "own" ELSE "role"

authenticateToken(s) ==
    /\ reqs[s].pc = "auth"
    /\ LET r == reqs[s] IN
         IF AuthStatus(r.tok) # 0 THEN Respond(s, r, AuthStatus(r.tok))
         ELSE \E u \in getUserById(r.tok.uid) :
                reqs' = [reqs EXCEPT ![s].user = ReqUser(u), ![s].pc = AfterAuth(r.route)]
    /\ UNCHANGED <<db, nreq, now, client>>

\* requireRole(role): 0 standing for next().
\* Variant of RoleStatus that only asks for an authenticated user.
RoleStatusAnyRole(user, role) ==
    IF user = NoUser THEN 401 ELSE 0

RoleStatus(user, role) ==
    IF user = NoUser THEN 401
    ELSE IF user.role # role THEN 403
    ELSE 0

requireRole(s) ==
    /\ reqs[s].pc = "role"
    /\ LET r == reqs[s]
           code == RoleStatus(r.user, RouteOf(r.route).gate) IN
         IF code # 0 THEN Respond(s, r, code)
         ELSE reqs' = [reqs EXCEPT ![s].pc = "handler"]
    /\ UNCHANGED <<db, nreq, now, client>>

\* const companyId = req.params.companyId || req.body.companyId
GuardCompanyId(r) ==
    IF RouteOf(r.route).param = "companyId" THEN r.pid ELSE r.body.companyId

\* Variant of OwnStatus without the ADMIN shortcut: every role is scoped to
\* its founder's company.
OwnStatusScopesAdmin(r) ==
    IF r.user = NoUser THEN 401
    ELSE IF r.user.founderId = Undefined THEN 403
    ELSE IF \E f \in getFounderById(r.user.founderId) : f.companyId = GuardCompanyId(r)
         THEN 0
         ELSE 403

\* requireAdminOrOwnCompany: 0 standing for next().
OwnStatus(r) ==
    IF r.user = NoUser THEN 401
    ELSE IF r.user.role = ADMIN THEN 0
    ELSE IF r.user.role = PORTFOLIO_COMPANY THEN
        IF r.user.founderId = Undefined THEN 403
        ELSE IF \E f \in getFounderById(r.user.founderId) : f.companyId = GuardCompanyId(r)
             THEN 0
             ELSE 403
    ELSE 403

\* The body's companyId as the guard finds it: the guard reads it for a
\* PORTFOLIO_COMPANY user when the path has no :companyId.
GuardReads(r) ==
    IF r.user.role = PORTFOLIO_COMPANY /\ RouteOf(r.route).param # "companyId"
    THEN BodyCompanyIds ELSE {r.body.companyId}

requireAdminOrOwnCompany(s) ==
    /\ reqs[s].pc = "own"
    /\ \E c \in GuardReads(reqs[s]) :
         LET r == [reqs[s] EXCEPT !.body.companyId = c]
             code == OwnStatus(r) IN
           IF code # 0 THEN Respond(s, r, code)
           ELSE reqs' = [reqs EXCEPT ![s] = [r EXCEPT !.pc = "handler"]]
    /\ UNCHANGED <<db, nreq, now, client>>

(* ---------------------------- zod schemas ------------------------------ *)

\* createInsertSchema(table).omit({id, createdAt, updatedAt}), whole or
\* .partial(): body.valid says every field sent has its column's type, val
\* stands for the table's notNull columns, companyId is a notNull text column
\* of fundraising, company_revenue and admin_snapshots, a nullable one of
\* founders, and no column of portfolio_companies (zod strips it).
RequiredOk(body, partial) == body.valid /\ (partial \/ body.val # Undefined)
insertPortfolioCompanySchema(body, partial) == RequiredOk(body, partial)
insertFounderSchema(body, partial) == RequiredOk(body, partial)
insertFundraisingSchema(body, partial) ==
    /\ RequiredOk(body, partial)
    /\ body.companyId # Null
    /\ partial \/ body.companyId # Undefined
insertCompanyRevenueSchema(body, partial) == insertFundraisingSchema(body, partial)
insertAdminSnapshotSchema(body, partial) == insertFundraisingSchema(body, partial)
insertBrainTrustMentorSchema(body, partial) == RequiredOk(body, partial)
insertUserSchema(body) == body.valid
\* z.string().email() and z.string().min(1)
loginSchema(body) == body.email # "notanemail" /\ body.password # ""

(* ------------------------------ handlers ------------------------------- *)

Handling(s, route) == reqs[s].pc = "handler" /\ reqs[s].route = route

\* The handler answers a request whose body it read as b.
Finish(s, b, code) ==
    reqs' = [reqs EXCEPT ![s].pc = "done", ![s].status = code, ![s].ran = TRUE,
                         ![s].body = b]

\* The handler answers with a body.
FinishWith(s, b, code, res) ==
    reqs' = [reqs EXCEPT ![s].pc = "done", ![s].status = code, ![s].ran = TRUE,
                         ![s].body = b, ![s].res = res]

Fresh(table) == Uuid(nextId[table])
Bump(table) == nextId' = [nextId EXCEPT ![table] = @ + 1]

\* Variant of JwtSign with expiresIn: "7d".
JwtSignForAWeek(u) ==
    [uid |-> u.id, email |-> u.email, role |-> u.role, iat |-> now, exp |-> now + 7 * TokenLife]

\* jwt.sign({id, email, role}, JWT_SECRET, {expiresIn: "24h"})
JwtSign(u) ==
    [uid |-> u.id, email |-> u.email, role |-> u.role, iat |-> now, exp |-> now + TokenLife]

login(s) ==
    /\ Handling(s, "login")
    /\ \E b \in LoginBodies :
         IF ~loginSchema(b)
         THEN FinishWith(s, b, 400, [NoRes EXCEPT !.message = "Invalid input"])
         ELSE IF \E u \in getUserByEmail(b.email) : BcryptCompare(b.password, u.passwordHash)
         THEN \E u \in getUserByEmail(b.email) :
                FinishWith(s, b, 200, [NoRes EXCEPT !.token = JwtSign(u), !.user = u.role])
         ELSE FinishWith(s, b, 401, [NoRes EXCEPT !.message = "Invalid credentials"])
    /\ UNCHANGED <<db, nreq, now, client>>

\* storage.createUser({...userData, passwordHash}): the row.
NewUser(id, b) ==
    [id |-> id, email |-> b.email, passwordHash |-> BcryptHash(b.password), role |-> b.role,
     founderId |-> b.founderId]

register(s) ==
    /\ Handling(s, "register")
    /\ \E b \in RegisterBodies :
         IF ~insertUserSchema(b)
         THEN FinishWith(s, b, 400, [NoRes EXCEPT !.message = "Invalid input"])
              /\ UNCHANGED db
         ELSE IF getUserByEmail(b.email) # {}
         THEN FinishWith(s, b, 400, [NoRes EXCEPT !.message = "User already exists"])
              /\ UNCHANGED db
         ELSE IF ~FkOk(b.founderId, founders) \/ EmailTaken(b.email)
         THEN FinishWith(s, b, 500, [NoRes EXCEPT !.message = "Internal server error"])
              /\ UNCHANGED db
         ELSE /\ users' = users \cup {NewUser(Fresh("users"), b)}
              /\ Bump("users")
              /\ FinishWith(s, b, 201, [NoRes EXCEPT !.token = JwtSign(NewUser(Fresh("users"), b))])
              /\ UNCHANGED <<founders, companies, fundraising, revenue, adminSnapshots,
                             mentors>>
    /\ UNCHANGED <<nreq, now, client>>

getAllCompanies(s) ==
    /\ Handling(s, "getAllCompanies")
    /\ Finish(s, reqs[s].body, 200)
    /\ UNCHANGED <<db, nreq, now, client>>

\* The row with the given id of a set of rows, as an optional value.
Opt(rows, id) == IF id = Undefined THEN <<>> ELSE <<CHOOSE x \in rows : x.id = id>>

\* Variant of getPortfolioCompanyById that takes founder[0] of all founders.
getPortfolioCompanyByIdAnyFounder(id) ==
    IF RowsById(companies, id) = {} THEN {<<>>}
    ELSE {<<[NoRes EXCEPT !.company = id,
                          !.founder = Opt(founders, f),
                          !.fundraising = getFundraisingByCompanyId(id),
                          !.revenue = getRevenueByCompanyId(id),
                          !.adminSnapshot = Opt(adminSnapshots, a)]>> :
             f \in FirstOf(founders), a \in FirstOf(getAdminSnapshotByCompanyId(id))}

\* storage.getPortfolioCompanyById: what the composite read can return, none
\* (<<>>) when no company has the id; founder is founder[0] of the company's
\* founders, adminSnapshot the first snapshot of the company.
getPortfolioCompanyById(id) ==
    IF RowsById(companies, id) = {} THEN {<<>>}
    ELSE {<<[NoRes EXCEPT !.company = id,
                          !.founder = Opt(founders, f),
                          !.fundraising = getFundraisingByCompanyId(id),
                          !.revenue = getRevenueByCompanyId(id),
                          !.adminSnapshot = Opt(adminSnapshots, a)]>> :
             f \in FirstOf(getFoundersByCompanyId(id)),
             a \in FirstOf(getAdminSnapshotByCompanyId(id))}

getCompanyById(s) ==
    /\ Handling(s, "getCompanyById")
    /\ \E company \in getPortfolioCompanyById(reqs[s].pid) :
         IF company = <<>>
         THEN FinishWith(s, reqs[s].body, 404, [NoRes EXCEPT !.message = "Company not found"])
         ELSE FinishWith(s, reqs[s].body, 200, company[1])
    /\ UNCHANGED <<db, nreq, now, client>>

\* Variant of NewFounder that drops the company link.
NewFounderUnlinked(id, firstName, cid) ==
    [id |-> id, firstName |-> firstName, companyId |-> Null]

\* storage.createFounder({...founder, companyId: company.id}): the row.
NewFounder(id, firstName, cid) == [id |-> id, firstName |-> firstName, companyId |-> cid]

\* Variant of createCompany that validates the founder object only after the
\* company row was inserted.
createCompanyThenFounder(s) ==
    /\ Handling(s, "createCompany")
    /\ \E b \in ReadBody(reqs[s], FALSE), f \in BodyFields :
         IF ~insertPortfolioCompanySchema(b, FALSE) THEN Finish(s, b, 400) /\ UNCHANGED db
         ELSE IF ~insertFounderSchema(f, FALSE)
         THEN /\ companies' = companies \cup
                    {[id |-> Fresh("companies"), legalName |-> b.val, website |-> Null]}
              /\ Bump("companies")
              /\ Finish(s, b, 400)
              /\ UNCHANGED <<users, founders, fundraising, revenue, adminSnapshots,
                             mentors>>
         ELSE /\ companies' = companies \cup
                    {[id |-> Fresh("companies"), legalName |-> b.val, website |-> Null]}
              /\ founders' = founders \cup
                    {NewFounder(Fresh("founders"), f.val, Fresh("companies"))}
              /\ nextId' = [nextId EXCEPT !.companies = @ + 1, !.founders = @ + 1]
              /\ FinishWith(s, b, 201,
                            [NoRes EXCEPT !.company = Fresh("companies"),
                                          !.founder = <<NewFounder(Fresh("founders"), f.val,
                                                                   Fresh("companies"))>>])
              /\ UNCHANGED <<users, fundraising, revenue, adminSnapshots, mentors>>
    /\ UNCHANGED <<nreq, now, client>>

\* createCompanySchema.parse(req.body) checks the company fields and the
\* nested founder object f in one call, before the first insert.
createCompany(s) ==
    /\ Handling(s, "createCompany")
    /\ \E b \in ReadBody(reqs[s], FALSE), f \in BodyFields :
         IF ~(insertPortfolioCompanySchema(b, FALSE) /\ insertFounderSchema(f, FALSE))
         THEN Finish(s, b, 400) /\ UNCHANGED db
         ELSE /\ companies' = companies \cup
                    {[id |-> Fresh("companies"), legalName |-> b.val, website |-> Null]}
              /\ founders' = founders \cup
                    {NewFounder(Fresh("founders"), f.val, Fresh("companies"))}
              /\ nextId' = [nextId EXCEPT !.companies = @ + 1, !.founders = @ + 1]
              /\ FinishWith(s, b, 201,
                            [NoRes EXCEPT !.company = Fresh("companies"),
                                          !.founder = <<NewFounder(Fresh("founders"), f.val,
                                                                   Fresh("companies"))>>])
              /\ UNCHANGED <<users, fundraising, revenue, adminSnapshots, mentors>>
    /\ UNCHANGED <<nreq, now, client>>

\* PUT /api/companies/:id: the partial update of the company row.
updateCompany(s) ==
    /\ Handling(s, "updateCompany")
    /\ \E b \in ReadBody(reqs[s], FALSE) :
         IF ~insertPortfolioCompanySchema(b, TRUE) THEN Finish(s, b, 400) /\ UNCHANGED db
         ELSE /\ companies' = UpdateRows(companies, reqs[s].pid, [legalName |-> b.val])
              /\ Finish(s, b, 200)
              /\ UNCHANGED <<users, founders, fundraising, revenue, adminSnapshots, mentors,
                             nextId>>
    /\ UNCHANGED <<nreq, now, client>>

deleteCompany(s) ==
    /\ Handling(s, "deleteCompany")
    /\ LET id == reqs[s].pid IN
         IF CompanyReferenced(id) THEN Finish(s, reqs[s].body, 500) /\ UNCHANGED db
         ELSE /\ companies' = companies \ RowsById(companies, id)
              /\ Finish(s, reqs[s].body, 204)
              /\ UNCHANGED <<users, founders, fundraising, revenue, adminSnapshots, mentors,
                             nextId>>
    /\ UNCHANGED <<nreq, now, client>>

\* Variant of MyCompany that answers with the composite view of any company.
MyCompanyOfAnyone(u) ==
    IF u.founderId = Undefined THEN {[NoRes EXCEPT !.message = "No associated founder"]}
    ELSE IF \A f \in getFounderById(u.founderId) : f.companyId = Null
    THEN {[NoRes EXCEPT !.message = "No associated company"]}
    ELSE {[NoRes EXCEPT !.company = c, !.founder = <<f>>] :
             c \in Ids(companies), f \in getFounderById(u.founderId)}

\* What getMyCompany answers to the user u of the request: a message when it
\* refuses, else the company of u's founder and that founder.
MyCompany(u) ==
    IF u.founderId = Undefined THEN {[NoRes EXCEPT !.message = "No associated founder"]}
    ELSE IF \A f \in getFounderById(u.founderId) : f.companyId = Null
    THEN {[NoRes EXCEPT !.message = "No associated company"]}
    ELSE IF \A f \in getFounderById(u.founderId) : RowsById(companies, f.companyId) = {}
    THEN {[NoRes EXCEPT !.message = "Company not found"]}
    ELSE {[NoRes EXCEPT !.company = f.companyId, !.founder = <<f>>] :
             f \in getFounderById(u.founderId)}
MyCompanyStatus(res) ==
    IF res.message = "No associated founder" THEN 400
    ELSE IF res.message # Undefined THEN 404
    ELSE 200

getMyCompany(s) ==
    /\ Handling(s, "getMyCompany")
    /\ \E res \in MyCompany(reqs[s].user) :
         FinishWith(s, reqs[s].body, MyCompanyStatus(res), res)
    /\ UNCHANGED <<db, nreq, now, client>>

getFounderByCompany(s) ==
    /\ Handling(s, "getFounderByCompany")
    /\ Finish(s, reqs[s].body, IF RowsById(companies, reqs[s].pid) = {} THEN 404 ELSE 200)
    /\ UNCHANGED <<db, nreq, now, client>>

updateFounder(s) ==
    /\ Handling(s, "updateFounder")
    /\ \E b \in ReadBody(reqs[s], TRUE) :
         IF ~insertFounderSchema(b, TRUE) THEN Finish(s, b, 400) /\ UNCHANGED db
         ELSE IF /\ RowsById(founders, reqs[s].pid) # {}
                 /\ b.companyId # Undefined /\ ~FkOk(b.companyId, companies)
              THEN Finish(s, b, 500) /\ UNCHANGED db
         ELSE /\ founders' = UpdateRows(founders, reqs[s].pid,
                                [firstName |-> b.val, companyId |-> b.companyId])
              /\ Finish(s, b, 200)
              /\ UNCHANGED <<users, companies, fundraising, revenue, adminSnapshots, mentors,
                             nextId>>
    /\ UNCHANGED <<nreq, now, client>>

getFundraisingByCompany(s) ==
    /\ Handling(s, "getFundraisingByCompany")
    /\ Finish(s, reqs[s].body, 200)
    /\ UNCHANGED <<db, nreq, now, client>>

\* POST /api/companies/:companyId/fundraising: the row is built from the body.
createFundraising(s) ==
    /\ Handling(s, "createFundraising")
    /\ \E b \in ReadBody(reqs[s], TRUE) :
         IF ~insertFundraisingSchema(b, FALSE) THEN Finish(s, b, 400) /\ UNCHANGED db
         ELSE IF b.companyId \notin Ids(companies) THEN Finish(s, b, 500) /\ UNCHANGED db
         ELSE /\ fundraising' = fundraising \cup
                    {[id |-> Fresh("fundraising"), amountUSD |-> b.val,
                      companyId |-> b.companyId]}
              /\ Bump("fundraising")
              /\ Finish(s, b, 201)
              /\ UNCHANGED <<users, founders, companies, revenue, adminSnapshots, mentors>>
    /\ UNCHANGED <<nreq, now, client>>

updateFundraising(s) ==
    /\ Handling(s, "updateFundraising")
    /\ \E b \in ReadBody(reqs[s], TRUE) :
         IF ~insertFundraisingSchema(b, TRUE) THEN Finish(s, b, 400) /\ UNCHANGED db
         ELSE IF /\ RowsById(fundraising, reqs[s].pid) # {}
                 /\ b.companyId # Undefined /\ b.companyId \notin Ids(companies)
              THEN Finish(s, b, 500) /\ UNCHANGED db
         ELSE /\ fundraising' = UpdateRows(fundraising, reqs[s].pid,
                                [amountUSD |-> b.val, companyId |-> b.companyId])
              /\ Finish(s, b, 200)
              /\ UNCHANGED <<users, founders, companies, revenue, adminSnapshots, mentors,
                             nextId>>
    /\ UNCHANGED <<nreq, now, client>>

deleteFundraising(s) ==
    /\ Handling(s, "deleteFundraising")
    /\ fundraising' = fundraising \ RowsById(fundraising, reqs[s].pid)
    /\ Finish(s, reqs[s].body, 204)
    /\ UNCHANGED <<users, founders, companies, revenue, adminSnapshots, mentors, nextId, nreq, now, client>>

getRevenueByCompany(s) ==
    /\ Handling(s, "getRevenueByCompany")
    /\ Finish(s, reqs[s].body, 200)
    /\ UNCHANGED <<db, nreq, now, client>>

createRevenue(s) ==
    /\ Handling(s, "createRevenue")
    /\ \E b \in ReadBody(reqs[s], TRUE) :
         IF ~insertCompanyRevenueSchema(b, FALSE) THEN Finish(s, b, 400) /\ UNCHANGED db
         ELSE IF b.companyId \notin Ids(companies) THEN Finish(s, b, 500) /\ UNCHANGED db
         ELSE /\ revenue' = revenue \cup
                    {[id |-> Fresh("revenue"), year |-> b.val, companyId |-> b.companyId]}
              /\ Bump("revenue")
              /\ Finish(s, b, 201)
              /\ UNCHANGED <<users, founders, companies, fundraising, adminSnapshots,
                             mentors>>
    /\ UNCHANGED <<nreq, now, client>>

updateRevenue(s) ==
    /\ Handling(s, "updateRevenue")
    /\ \E b \in ReadBody(reqs[s], TRUE) :
         IF ~insertCompanyRevenueSchema(b, TRUE) THEN Finish(s, b, 400) /\ UNCHANGED db
         ELSE IF /\ RowsById(revenue, reqs[s].pid) # {}
                 /\ b.companyId # Undefined /\ b.companyId \notin Ids(companies)
              THEN Finish(s, b, 500) /\ UNCHANGED db
         ELSE /\ revenue' = UpdateRows(revenue, reqs[s].pid,
                                [year |-> b.val, companyId |-> b.companyId])
              /\ Finish(s, b, 200)
              /\ UNCHANGED <<users, founders, companies, fundraising, adminSnapshots,
                             mentors, nextId>>
    /\ UNCHANGED <<nreq, now, client>>

deleteRevenue(s) ==
    /\ Handling(s, "deleteRevenue")
    /\ revenue' = revenue \ RowsById(revenue, reqs[s].pid)
    /\ Finish(s, reqs[s].body, 204)
    /\ UNCHANGED <<users, founders, companies, fundraising, adminSnapshots, mentors, nextId,
                   nreq, now, client>>

getAllBrainTrustMentors(s) ==
    /\ Handling(s, "getAllBrainTrustMentors")
    /\ Finish(s, reqs[s].body, 200)
    /\ UNCHANGED <<db, nreq, now, client>>

getBrainTrustMentorById(s) ==
    /\ Handling(s, "getBrainTrustMentorById")
    /\ Finish(s, reqs[s].body, IF RowsById(mentors, reqs[s].pid) = {} THEN 404 ELSE 200)
    /\ UNCHANGED <<db, nreq, now, client>>

createBrainTrustMentor(s) ==
    /\ Handling(s, "createBrainTrustMentor")
    /\ \E b \in ReadBody(reqs[s], FALSE) :
         IF ~insertBrainTrustMentorSchema(b, FALSE) THEN Finish(s, b, 400) /\ UNCHANGED db
         ELSE /\ mentors' = mentors \cup {[id |-> Fresh("mentors"), name |-> b.val]}
              /\ Bump("mentors")
              /\ Finish(s, b, 201)
              /\ UNCHANGED <<users, founders, companies, fundraising, revenue,
                             adminSnapshots>>
    /\ UNCHANGED <<nreq, now, client>>

updateBrainTrustMentor(s) ==
    /\ Handling(s, "updateBrainTrustMentor")
    /\ \E b \in ReadBody(reqs[s], FALSE) :
         IF ~insertBrainTrustMentorSchema(b, TRUE) THEN Finish(s, b, 400) /\ UNCHANGED db
         ELSE /\ mentors' = UpdateRows(mentors, reqs[s].pid, [name |-> b.val])
              /\ Finish(s, b, 200)
              /\ UNCHANGED <<users, founders, companies, fundraising, revenue,
                             adminSnapshots, nextId>>
    /\ UNCHANGED <<nreq, now, client>>

deleteBrainTrustMentor(s) ==
    /\ Handling(s, "deleteBrainTrustMentor")
    /\ mentors' = mentors \ RowsById(mentors, reqs[s].pid)
    /\ Finish(s, reqs[s].body, 204)
    /\ UNCHANGED <<users, founders, companies, fundraising, revenue, adminSnapshots, nextId,
                   nreq, now, client>>

(* ----------------------------- environment ----------------------------- *)

\* A user row is removed from the store (by an operator of the database; the
\* server has no route for it).
DeleteUser ==
    /\ nextId.users - 1 - Cardinality(users) < MaxDeleted
    /\ \E u \in users : users' = users \ {u}
    /\ UNCHANGED <<founders, companies, fundraising, revenue, adminSnapshots, mentors,
                   nextId, reqs, nreq, now, client>>

(* ------------------------ nested company update ----------------------- *)

\* The body of PATCH /api/companies/:id, besides companyId: top-level company
\* fields, a founder object, a fundraising array, a revenue array and an
\* adminSnapshot object, each optional.  Invalid is a value of the wrong type;
\* investmentUSD stands for the notNull columns of admin_snapshots that have
\* no default.  An optional object is a sequence of at most one record.
Founder(firstName) == <<[firstName |-> firstName]>>
Round(amountUSD) == [amountUSD |-> amountUSD]
Year(year) == [year |-> year]
Snapshot(status, investmentUSD) == <<[status |-> status, investmentUSD |-> investmentUSD]>>
Payloads ==
    {[NoPayload EXCEPT !.adminSnapshot = Snapshot("EXITED", "b")],
     [NoPayload EXCEPT !.adminSnapshot = Snapshot("ON_HOLD", Undefined)],
     [NoPayload EXCEPT !.adminSnapshot = Snapshot(Invalid, "b")],
     [NoPayload EXCEPT !.legalName = "b", !.founder = Founder("b")],
     [NoPayload EXCEPT !.website = "b", !.founder = Founder(Undefined)],
     [NoPayload EXCEPT !.legalName = "b", !.website = Invalid],
     [NoPayload EXCEPT !.legalName = "c", !.website = "c"],
     [NoPayload EXCEPT !.founder = Founder("b"), !.fundraising = <<Round("b"), Round(Invalid)>>,
                       !.adminSnapshot = Snapshot("ACTIVE", "b")],
     [NoPayload EXCEPT !.fundraising = <<Round("b"), Round("c")>>,
                       !.revenue = <<Year("b")>>],
     [NoPayload EXCEPT !.revenue = <<Year("b"), Year(Invalid)>>,
                       !.adminSnapshot = Snapshot(Undefined, "b")]}

\* The sub-parts in the order updateCompany applies them, each named by the
\* await it starts with.
Parts == <<"nCompany", "nFounderRead", "nFundraising", "nRevenue", "nSnapRead">>

\* if (updateData.legalName || updateData.aka || updateData.countryReg), if
\* (updateData.founder), ... : whether the handler enters a sub-part.
PartPresent(p, k) ==
    CASE k = 1 -> p.legalName # Undefined
      [] k = 2 -> p.founder # <<>>
      [] k = 3 -> Len(p.fundraising) > 0
      [] k = 4 -> Len(p.revenue) > 0
      [] k = 5 -> p.adminSnapshot # <<>>

\* The await the handler reaches after sub-part k (0: from its start).
AfterPart(p, k) ==
    LET later == {j \in (k + 1)..Len(Parts) : PartPresent(p, j)} IN
      IF later = {} THEN "nReply"
      ELSE Parts[CHOOSE j \in later : \A i \in later : j <= i]

\* The zod schemas on the payload's objects.
CompanyFieldsOk(p) == p.legalName # Invalid /\ p.website # Invalid
FounderOk(f, partial) == f.firstName # Invalid /\ (partial \/ f.firstName # Undefined)
RoundOk(x) == x.amountUSD \notin {Invalid, Undefined}
YearOk(x) == x.year \notin {Invalid, Undefined}
SnapshotOk(x, partial) ==
    /\ x.status # Invalid
    /\ x.investmentUSD # Invalid
    /\ partial \/ x.investmentUSD # Undefined

\* Variant of Fail in which the handler notes the error and goes on to its
\* reply.
FailAndGoOn(s, code) == reqs' = [reqs EXCEPT ![s].pc = "nReply", ![s].status = code]

\* The handler goes on to the await `pc`, or answers and stops.
Goto(s, pc, local) == reqs' = [reqs EXCEPT ![s].pc = pc, ![s].local = local]
Fail(s, code) == reqs' = [reqs EXCEPT ![s].pc = "done", ![s].status = code]

\* updateCompany of the nested update, from its start to its first await.
patchCompany(s) ==
    /\ Handling(s, "patchCompany")
    /\ \E p \in Payloads :
         reqs' = [reqs EXCEPT ![s].payload = p, ![s].ran = TRUE, ![s].pc = AfterPart(p, 0)]
    /\ UNCHANGED <<db, nreq, now, client>>

patchCompanyFields(s) ==
    /\ reqs[s].pc = "nCompany"
    /\ LET r == reqs[s] IN
         IF ~CompanyFieldsOk(r.payload) THEN Fail(s, 400) /\ UNCHANGED db
         ELSE /\ companies' = UpdateRows(companies, r.pid,
                                [legalName |-> r.payload.legalName,
                                 website |-> r.payload.website])
              /\ Goto(s, AfterPart(r.payload, 1), r.local)
              /\ UNCHANGED <<users, founders, fundraising, revenue, adminSnapshots, mentors,
                             nextId>>
    /\ UNCHANGED <<nreq, now, client>>

patchFounderRead(s) ==
    /\ reqs[s].pc = "nFounderRead"
    /\ \E f \in FirstOf(getFoundersByCompanyId(reqs[s].pid)) :
         Goto(s, "nFounderWrite", [reqs[s].local EXCEPT !.founder = f])
    /\ UNCHANGED <<db, nreq, now, client>>

patchFounderWrite(s) ==
    /\ reqs[s].pc = "nFounderWrite"
    /\ LET r == reqs[s]
           f == r.payload.founder[1] IN
         IF r.local.founder # Undefined THEN
            IF ~FounderOk(f, TRUE) THEN Fail(s, 400) /\ UNCHANGED db
            ELSE /\ founders' = UpdateRows(founders, r.local.founder, f)
                 /\ Goto(s, AfterPart(r.payload, 2), r.local)
                 /\ UNCHANGED <<users, companies, fundraising, revenue, adminSnapshots,
                                mentors, nextId>>
         ELSE
            IF ~FounderOk(f, FALSE) THEN Fail(s, 400) /\ UNCHANGED db
            ELSE IF r.pid \notin Ids(companies) THEN Fail(s, 500) /\ UNCHANGED db
            ELSE /\ founders' = founders \cup
                       {[id |-> Fresh("founders"), firstName |-> f.firstName,
                         companyId |-> r.pid]}
                 /\ Bump("founders")
                 /\ Goto(s, AfterPart(r.payload, 2), r.local)
                 /\ UNCHANGED <<users, companies, fundraising, revenue, adminSnapshots,
                                mentors>>
    /\ UNCHANGED <<nreq, now, client>>

\* The loop's next await: after the last element the handler goes on.
AfterElement(r, k, array) ==
    IF r.local.i + 1 = Len(array) THEN AfterPart(r.payload, k) ELSE Parts[k]
ElementLocal(r, array) ==
    [r.local EXCEPT !.i = IF r.local.i + 1 = Len(array) THEN 0 ELSE r.local.i + 1]

\* Variant of RoundsAfter that does what the handler's comment announces:
\* "delete existing rounds and create new ones".
RoundsAfterReplacing(r, x) ==
    (fundraising \ RowsByCompany(fundraising, r.pid)) \cup
      {[id |-> Fresh("fundraising"), amountUSD |-> x.amountUSD, companyId |-> r.pid]}

\* storage.createFundraising({...fundraisingRound, companyId: id}): the table
\* after the insert.
RoundsAfter(r, x) ==
    fundraising \cup
      {[id |-> Fresh("fundraising"), amountUSD |-> x.amountUSD, companyId |-> r.pid]}

patchFundraising(s) ==
    /\ reqs[s].pc = "nFundraising"
    /\ LET r == reqs[s]
           x == r.payload.fundraising[r.local.i + 1] IN
         IF ~RoundOk(x) THEN Fail(s, 400) /\ UNCHANGED db
         ELSE IF r.pid \notin Ids(companies) THEN Fail(s, 500) /\ UNCHANGED db
         ELSE /\ fundraising' = RoundsAfter(r, x)
              /\ Bump("fundraising")
              /\ Goto(s, AfterElement(r, 3, r.payload.fundraising),
                      ElementLocal(r, r.payload.fundraising))
              /\ UNCHANGED <<users, founders, companies, revenue, adminSnapshots, mentors>>
    /\ UNCHANGED <<nreq, now, client>>

patchRevenue(s) ==
    /\ reqs[s].pc = "nRevenue"
    /\ LET r == reqs[s]
           x == r.payload.revenue[r.local.i + 1] IN
         IF ~YearOk(x) THEN Fail(s, 400) /\ UNCHANGED db
         ELSE IF r.pid \notin Ids(companies) THEN Fail(s, 500) /\ UNCHANGED db
         ELSE /\ revenue' = revenue \cup
                    {[id |-> Fresh("revenue"), year |-> x.year, companyId |-> r.pid]}
              /\ Bump("revenue")
              /\ Goto(s, AfterElement(r, 4, r.payload.revenue),
                      ElementLocal(r, r.payload.revenue))
              /\ UNCHANGED <<users, founders, companies, fundraising, adminSnapshots,
                             mentors>>
    /\ UNCHANGED <<nreq, now, client>>

\* const existingSnapshot = await storage.getAdminSnapshotByCompanyId(id)
patchSnapshotRead(s) ==
    /\ reqs[s].pc = "nSnapRead"
    /\ \E e \in FirstOf(getAdminSnapshotByCompanyId(reqs[s].pid)) :
         Goto(s, "nSnapWrite", [reqs[s].local EXCEPT !.snapshot = e])
    /\ UNCHANGED <<db, nreq, now, client>>

\* The row createAdminSnapshot inserts: status defaults to ACTIVE.
NewSnapshot(id, cid, x) ==
    [id |-> id, companyId |-> cid,
     status |-> IF x.status = Undefined THEN "ACTIVE" ELSE x.status,
     investmentUSD |-> x.investmentUSD]

\* Variant of SnapshotWrite that inserts whatever it read.
SnapshotWriteAlwaysCreates(r) ==
    adminSnapshots \cup
      {NewSnapshot(Fresh("adminSnapshots"), r.pid, r.payload.adminSnapshot[1])}

\* The update-or-create the handler does with the snapshot it read.
SnapshotWrite(r) ==
    IF r.local.snapshot # Undefined
    THEN UpdateRows(adminSnapshots, r.local.snapshot, r.payload.adminSnapshot[1])
    ELSE adminSnapshots \cup
           {NewSnapshot(Fresh("adminSnapshots"), r.pid, r.payload.adminSnapshot[1])}

patchSnapshotWrite(s) ==
    /\ reqs[s].pc = "nSnapWrite"
    /\ LET r == reqs[s]
           update == r.local.snapshot # Undefined IN
         IF ~SnapshotOk(r.payload.adminSnapshot[1], update) THEN Fail(s, 400) /\ UNCHANGED db
         ELSE IF ~update /\ r.pid \notin Ids(companies) THEN Fail(s, 500) /\ UNCHANGED db
         ELSE /\ adminSnapshots' = SnapshotWrite(r)
              /\ nextId' = IF update THEN nextId
                           ELSE [nextId EXCEPT !.adminSnapshots = @ + 1]
              /\ Goto(s, "nReply", r.local)
              /\ UNCHANGED <<users, founders, companies, fundraising, revenue, mentors>>
    /\ UNCHANGED <<nreq, now, client>>

\* const updatedCompany = await storage.getPortfolioCompanyById(id); res.json(...)
patchReply(s) ==
    /\ reqs[s].pc = "nReply"
    /\ Fail(s, 200)
    /\ UNCHANGED <<db, nreq, now, client>>

\* A client sends a nested body to the route of updateCompany.
ReceivePatch(s, tokens) ==
    /\ reqs[s].pc \in {"idle", "done"}
    /\ nreq < MaxPatches
    /\ \E tok \in tokens, pid \in PathIds("patchCompany") :
         reqs' = [reqs EXCEPT ![s] =
                     [Idle EXCEPT !.verb = Registered.updateCompany.verb,
                                  !.path = Registered.updateCompany.path,
                                  !.route = "patchCompany", !.tok = tok, !.pid = pid,
                                  !.pc = FirstPc("patchCompany")]]
    /\ nreq' = nreq + 1 /\ UNCHANGED <<now, client>>
    /\ UNCHANGED db

Patch_(s) ==
    \/ authenticateToken(s) \/ requireAdminOrOwnCompany(s)
    \/ patchCompany(s) \/ patchCompanyFields(s) \/ patchFounderRead(s)
    \/ patchFounderWrite(s) \/ patchFundraising(s) \/ patchRevenue(s)
    \/ patchSnapshotRead(s) \/ patchSnapshotWrite(s) \/ patchReply(s)

(* --------------------------- specification ----------------------------- *)

\* The routes registerRoutes installs, served one request at a time.
Serve(s) ==
    \/ authenticateToken(s) \/ requireRole(s) \/ requireAdminOrOwnCompany(s)
    \/ login(s) \/ register(s)
    \/ getAllCompanies(s) \/ getCompanyById(s) \/ createCompany(s) \/ updateCompany(s)
    \/ deleteCompany(s) \/ getMyCompany(s)
    \/ getFounderByCompany(s) \/ updateFounder(s)
    \/ getFundraisingByCompany(s) \/ createFundraising(s) \/ updateFundraising(s)
    \/ deleteFundraising(s)
    \/ getRevenueByCompany(s) \/ createRevenue(s) \/ updateRevenue(s) \/ deleteRevenue(s)
    \/ getAllBrainTrustMentors(s) \/ getBrainTrustMentorById(s)
    \/ createBrainTrustMentor(s) \/ updateBrainTrustMentor(s) \/ deleteBrainTrustMentor(s)

\* The tokens of the admins.
AdminTokens ==
    {[kind |-> "ok", uid |-> u.id, exp |-> now + TokenLife] : u \in {u \in users : u.role = ADMIN}}

\* An admin's client makes a call registerRoutes has no route for: no
\* middleware and no handler of registerRoutes sees it, and it is answered
\* by whatever follows them in the app (Express's 404, or a catch-all
\* serving the client with 200).
ReceiveUnrouted(s) ==
    /\ reqs[s].pc \in {"idle", "done"}
    /\ nreq < MaxRequests
    /\ \E call \in {c \in ClientCalls : Dispatch(c) = {}}, tok \in AdminTokens,
          pid \in Ids(companies), code \in {404, 200} :
         reqs' = [reqs EXCEPT ![s] =
                     [Idle EXCEPT !.verb = call.verb, !.path = call.path, !.tok = tok,
                                  !.pid = pid, !.pc = "done", !.status = code]]
    /\ nreq' = nreq + 1 /\ UNCHANGED <<now, client>>
    /\ UNCHANGED db

Next == Receive("s1") \/ ReceiveUnrouted("s1") \/ Serve("s1") \/ DeleteUser

Spec == Init /\ [][Next]_vars

\* Nested company updates, one after the other.
NextPatch == ReceivePatch("s1", Tokens) \/ Patch_("s1")

SpecPatch == Init /\ [][NextPatch]_vars

\* An admin creates companies (slot s1) and reads companies back (slot s2),
\* one request at a time.
ReceiveRoundTrip(s, route) ==
    /\ \A t \in Slots : reqs[t].pc \in {"idle", "done"}
    /\ nreq < MaxRoundTrips
    /\ \E tok \in AdminTokens, pid \in PathIds(route) :
         reqs' = [reqs EXCEPT ![s] =
                     [Idle EXCEPT !.verb = Registered[route].verb,
                                  !.path = Registered[route].path,
                                  !.route = route, !.tok = tok, !.pid = pid,
                                  !.pc = FirstPc(route)]]
    /\ nreq' = nreq + 1 /\ UNCHANGED <<now, client>>
    /\ UNCHANGED db

RoundTrip(s) ==
    \/ authenticateToken(s) \/ requireRole(s) \/ requireAdminOrOwnCompany(s)
    \/ createCompany(s) \/ getCompanyById(s)

NextRoundTrip ==
    \/ ReceiveRoundTrip("s1", "createCompany")
    \/ ReceiveRoundTrip("s2", "getCompanyById")
    \/ RoundTrip("s1") \/ RoundTrip("s2")

SpecRoundTrip == Init /\ [][NextRoundTrip]_vars

\* An admin deletes funding rounds, revenue records and companies, one
\* request at a time.
ReceiveDelete(s) ==
    /\ reqs[s].pc \in {"idle", "done"}
    /\ nreq < MaxDeletes
    /\ \E route \in {"deleteFundraising", "deleteRevenue", "deleteCompany"},
         tok \in AdminTokens :
         \E pid \in PathIds(route) :
            reqs' = [reqs EXCEPT ![s] =
                        [Idle EXCEPT !.verb = Registered[route].verb,
                                     !.path = Registered[route].path,
                                     !.route = route, !.tok = tok, !.pid = pid,
                                     !.pc = FirstPc(route)]]
    /\ nreq' = nreq + 1 /\ UNCHANGED <<now, client>>
    /\ UNCHANGED db

Delete(s) ==
    \/ authenticateToken(s) \/ requireRole(s) \/ requireAdminOrOwnCompany(s)
    \/ deleteFundraising(s) \/ deleteRevenue(s) \/ deleteCompany(s)

NextDelete == ReceiveDelete("s1") \/ Delete("s1")

SpecDelete == Init /\ [][NextDelete]_vars

\* The Authorization header the client builds from a token it was issued.
Bearer(jwt) == [kind |-> "ok", uid |-> jwt.uid, exp |-> jwt.exp]

\* A request to `route` arrives when no other is being served.
ReceiveFor(s, route, tokens, max) ==
    /\ \A t \in Slots : reqs[t].pc \in {"idle", "done"}
    /\ nreq < max
    /\ \E tok \in tokens, pid \in PathIds(route) :
         reqs' = [reqs EXCEPT ![s] =
                     [Idle EXCEPT !.verb = Registered[route].verb,
                                  !.path = Registered[route].path,
                                  !.route = route, !.tok = tok, !.pid = pid,
                                  !.pc = FirstPc(route)]]
    /\ nreq' = nreq + 1 /\ UNCHANGED <<now, client>>
    /\ UNCHANGED db

\* The client presents the token it was issued last to a protected route.
BearerRoutes == {"getAllCompanies", "getFundraisingByCompany", "getAllBrainTrustMentors"}
ReceiveBearer(s, issued, max) ==
    /\ issued # NoJwt
    /\ \E route \in BearerRoutes : ReceiveFor(s, route, {Bearer(issued)}, max)

\* Twelve hours pass.
Tick ==
    /\ now < MaxClock
    /\ now' = now + 12
    /\ UNCHANGED <<db, reqs, nreq, client>>

\* Tokens are issued by login and register (slot s1) and presented later
\* (slot s2), while the clock runs.
Token(s) ==
    \/ authenticateToken(s) \/ requireRole(s) \/ requireAdminOrOwnCompany(s)
    \/ login(s) \/ register(s)
    \/ getAllCompanies(s) \/ getFundraisingByCompany(s) \/ getAllBrainTrustMentors(s)

NextToken ==
    \/ ReceiveFor("s1", "login", {NoToken}, MaxTokenUses)
    \/ ReceiveFor("s1", "register", AdminTokens, MaxTokenUses)
    \/ ReceiveBearer("s2", reqs["s1"].res.token, MaxTokenUses)
    \/ Token("s1") \/ Token("s2")
    \/ Tick

SpecToken == Init /\ [][NextToken]_vars

\* The row of the user a token was issued to is given another role or
\* another founder reference (by an operator of the database; the server has
\* no route for it).
ChangeUser(issued) ==
    /\ Cardinality(users \ SeedUsers) < MaxChanged
    /\ \E u \in getUserById(issued.uid) :
         \E v \in {[u EXCEPT !.role = r] : r \in Roles}
                    \cup {[u EXCEPT !.founderId = f] : f \in {Null} \cup Ids(founders)} :
            /\ v # u
            /\ users' = (users \ {u}) \cup {v}
    /\ UNCHANGED <<founders, companies, fundraising, revenue, adminSnapshots, mentors,
                   nextId, reqs, nreq, now, client>>

\* A user signs in (slot s1); then its row changes, or an admin relinks a
\* founder, and the token issued at sign-in is presented (slot s2).
Stale(s) ==
    \/ authenticateToken(s) \/ requireRole(s) \/ requireAdminOrOwnCompany(s)
    \/ login(s) \/ updateFounder(s)
    \/ getAllCompanies(s) \/ getFundraisingByCompany(s) \/ getAllBrainTrustMentors(s)

NextStale ==
    \/ ReceiveFor("s1", "login", {NoToken}, MaxStale)
    \/ (reqs["s1"].res.token # NoJwt /\ ReceiveFor("s2", "updateFounder", AdminTokens, MaxStale))
    \/ ReceiveBearer("s2", reqs["s1"].res.token, MaxStale)
    \/ Stale("s1") \/ Stale("s2")
    \/ ChangeUser(reqs["s1"].res.token)

SpecStale == Init /\ [][NextStale]_vars

\* Two clients send requests to protected routes at the same time; each
\* middleware and handler of a request is scheduled once its await resolves.
ReceiveGuarded(s) ==
    /\ reqs[s].pc \in {"idle", "done"}
    /\ nreq < MaxGuarded
    /\ \E route \in BearerRoutes, tok \in Tokens :
         \E pid \in PathIds(route) :
            reqs' = [reqs EXCEPT ![s] =
                        [Idle EXCEPT !.verb = Registered[route].verb,
                                     !.path = Registered[route].path,
                                     !.route = route, !.tok = tok, !.pid = pid,
                                     !.pc = FirstPc(route)]]
    /\ nreq' = nreq + 1 /\ UNCHANGED <<now, client>>
    /\ UNCHANGED db

Guarded(s) ==
    \/ authenticateToken(s) \/ requireRole(s) \/ requireAdminOrOwnCompany(s)
    \/ getAllCompanies(s) \/ getFundraisingByCompany(s) \/ getAllBrainTrustMentors(s)

NextGuards == \E s \in Slots : ReceiveGuarded(s) \/ Guarded(s)

SpecGuards == Init /\ [][NextGuards]_vars /\ \A s \in Slots : WF_vars(Guarded(s))

\* An admin sends nested updates, then reads the company back.
Read(s) ==
    \/ authenticateToken(s) \/ requireAdminOrOwnCompany(s) \/ getCompanyById(s)

NextRead ==
    \/ ReceivePatch("s1", AdminTokens) \/ Patch_("s1")
    \/ ReceiveFor("s2", "getCompanyById", AdminTokens, MaxReads) \/ Read("s2")

SpecRead == Init /\ [][NextRead]_vars

\* AuthProvider finishes loading: getUser(), the user saved by saveAuth if
\* any, becomes the user of the auth context.
AuthSettles ==
    /\ client.isLoading
    /\ client' = Render([client EXCEPT !.isLoading = FALSE, !.user = client.saved])
    /\ UNCHANGED <<db, reqs, nreq, now>>

\* The page is reloaded: the application mounts again, localStorage stays.
Reload ==
    /\ ~client.isLoading
    /\ client' = Render([client EXCEPT !.isLoading = TRUE, !.user = Undefined,
                                       !.pending = Undefined])
    /\ UNCHANGED <<db, reqs, nreq, now>>

\* The user opens a location of the application.
Navigate ==
    /\ \E path \in {"/login", "/admin", "/dashboard", "/", "/other"} :
         path # client.path /\ client' = Render([client EXCEPT !.path = path])
    /\ UNCHANGED <<db, reqs, nreq, now>>

\* The effect of the ProtectedRoute on the screen runs.
Redirect ==
    /\ RouteFor(client.path).protected
    /\ RedirectsToLogin(client.isLoading, client.user, RouteFor(client.path).requireRole)
    /\ client' = Render([client EXCEPT !.path = "/login"])
    /\ UNCHANGED <<db, reqs, nreq, now>>

\* onSubmit of the login page: apiLogin(email, password).
SubmitLogin ==
    /\ client.shown = "Login" /\ client.pending = Undefined
    /\ ReceiveFor("s1", "login", {NoToken}, MaxLogins)

\* apiLogin returns: on success saveAuth and login(authData.user), then the
\* 100 ms wait; on failure setError.
LoginReturns ==
    /\ reqs["s1"].route = "login" /\ reqs["s1"].pc = "done"
    /\ client' = IF reqs["s1"].status = 200
                 THEN Render([client EXCEPT !.saved = reqs["s1"].res.user,
                                            !.user = reqs["s1"].res.user,
                                            !.pending = reqs["s1"].res.user])
                 ELSE client
    /\ reqs' = [reqs EXCEPT !["s1"] = Idle]
    /\ UNCHANGED <<db, nreq, now>>

\* After the wait: setLocation by the role of authData.user.
LoginRedirects ==
    /\ client.pending # Undefined
    /\ client' = Render([client EXCEPT !.path = IF client.pending = ADMIN THEN "/admin"
                                                ELSE "/dashboard",
                                       !.pending = Undefined])
    /\ UNCHANGED <<db, reqs, nreq, now>>

NextClient ==
    \/ AuthSettles \/ Reload \/ Navigate \/ Redirect
    \/ SubmitLogin \/ login("s1") \/ LoginReturns \/ LoginRedirects

SpecClient == Init /\ [][NextClient]_vars

\* Two admins send nested company updates at the same time: the handlers'
\* awaits interleave.
NextRace == \E s \in Slots : ReceivePatch(s, AdminTokens) \/ Patch_(s)

SpecRace == Init /\ [][NextRace]_vars

(* ------------------------------- claims -------------------------------- *)

OwnRoutes == {n \in RouteNames : Routes[n].gate = "own"}

\* The company a user is scoped to: its founder's company (Null when the
\* founder has none, Undefined when the user has no founder row).
CompanyOf(user) ==
    IF getFounderById(user.founderId) = {} THEN Undefined
    ELSE (CHOOSE f \in getFounderById(user.founderId) : TRUE).companyId

\* The company a request to an admin-or-own route is about: the path's
\* company, or the company of the row the path names.
RowCompany(table, id) ==
    IF RowsById(table, id) = {} THEN Undefined
    ELSE (CHOOSE x \in RowsById(table, id) : TRUE).companyId
RequestedCompany(r) ==
    CASE RouteOf(r.route).param = "companyId" -> r.pid
      [] r.route \in {"getCompanyById", "updateCompany"} -> r.pid
      [] r.route = "updateFounder" -> RowCompany(founders, r.pid)
      [] r.route \in {"updateFundraising", "deleteFundraising"} ->
           RowCompany(fundraising, r.pid)
      [] r.route \in {"updateRevenue", "deleteRevenue"} -> RowCompany(revenue, r.pid)
      [] OTHER -> Undefined

IsPortfolio(r) == r.user.role = PORTFOLIO_COMPANY
OnOwnRoute(r) == r.route \in OwnRoutes
\* The guard passed the request on: its handler is about to run.
Admitted(r) == r.pc = "handler"
\* A middleware answered the request: its handler never ran.
Refused(r) == r.pc = "done" /\ ~r.ran

\* C1: a PORTFOLIO_COMPANY identity whose founder's company differs from the
\* company a request to an admin-or-own route is about never has the request
\* reach the handler, and is answered 403.
C1_CrossCompanyDenied ==
    \A s \in Slots :
        LET r == reqs[s] IN
          (OnOwnRoute(r) /\ IsPortfolio(r) /\ RequestedCompany(r) # Undefined
             /\ CompanyOf(r.user) # RequestedCompany(r))
          => /\ ~Admitted(r)
             /\ Refused(r) => r.status = 403

\* C2: a step of a handler run for a PORTFOLIO_COMPANY user whose founder is
\* linked to company C changes no company, founder, fundraising or revenue
\* row of another company and adds no fundraising or revenue row to another
\* company.
OthersOf(table, c) == {x \in table : x.companyId # c}
OthersUntouched(c) ==
    /\ {x \in companies' : x.id # c} = {x \in companies : x.id # c}
    /\ OthersOf(founders, c) \subseteq founders'
    /\ OthersOf(fundraising', c) = OthersOf(fundraising, c)
    /\ OthersOf(revenue', c) = OthersOf(revenue, c)
C2_OtherCompaniesUntouched ==
    [][\A s \in Slots :
          (Admitted(reqs[s]) /\ IsPortfolio(reqs[s])
             /\ CompanyOf(reqs[s].user) \in Ids(companies))
          => OthersUntouched(CompanyOf(reqs[s].user))]_vars

\* C3: a PORTFOLIO_COMPANY identity whose founder is linked to company C is
\* never refused by the guard of an admin-or-own route when the request is
\* about company C.
C3_OwnCompanyAdmitted ==
    \A s \in Slots :
        LET r == reqs[s] IN
          (OnOwnRoute(r) /\ IsPortfolio(r) /\ CompanyOf(r.user) \in Ids(companies)
             /\ CompanyOf(r.user) = RequestedCompany(r))
          => ~Refused(r)

\* C4: an ADMIN identity is never refused by the guard of an admin-or-own
\* route: every such request it makes is answered by the handler.
C4_AdminAdmitted ==
    \A s \in Slots :
        LET r == reqs[s] IN
          (OnOwnRoute(r) /\ r.user.role = ADMIN) => ~Refused(r)
C4_Witness ==
    \E s \in Slots :
        LET r == reqs[s] IN
          /\ r.route = "updateFundraising" /\ r.user.role = ADMIN
          /\ r.user.founderId = "id2" /\ RequestedCompany(r) = "id1"
          /\ r.body.companyId = Undefined /\ r.ran /\ r.status = 200

\* A request that carries no valid token: no header, no token after the
\* scheme, a bad signature, a past expiry, or the id of a user that is gone.
NoValidToken(r) == r.tok.kind # "ok" \/ Expired(r.tok) \/ getUserById(r.tok.uid) = {}
\* The request in slot s leaves authenticateToken; a new request arrives.
AuthStep(s) == reqs[s].pc = "auth" /\ reqs'[s].pc # "auth"
Arrives(s) == reqs[s].pc \in {"idle", "done"} /\ reqs'[s].pc \notin {"idle", "done"}

\* C5 (as stated): every route but login starts with authenticateToken, and
\* authenticateToken answers a request without a valid token 401 and passes
\* it no further.
C5_NoTokenIs401 ==
    [][\A s \in Slots :
          /\ (Arrives(s) /\ reqs'[s].route # "login") => reqs'[s].pc = "auth"
          /\ (AuthStep(s) /\ NoValidToken(reqs[s]))
               => Refused(reqs'[s]) /\ reqs'[s].status = 401]_vars

\* C5 (amended): every route but login starts with authenticateToken, and
\* authenticateToken passes no request without a valid token on: it answers
\* 401 when the header or its token part is missing or the token's user is
\* gone, and 403 when the signature is bad or the token has expired.
C5_NoTokenIs401Or403 ==
    [][\A s \in Slots :
          /\ (Arrives(s) /\ reqs'[s].route # "login") => reqs'[s].pc = "auth"
          /\ (AuthStep(s) /\ NoValidToken(reqs[s]))
               => /\ Refused(reqs'[s])
                  /\ reqs'[s].status =
                       IF reqs[s].tok.kind = "badSignature" \/ Expired(reqs[s].tok)
                       THEN 403 ELSE 401]_vars
C5_Witness ==
    \E s \in Slots :
        /\ reqs[s].route = "deleteCompany" /\ reqs[s].tok.kind = "expired"
        /\ Refused(reqs[s]) /\ reqs[s].status = 403

\* C6: a PORTFOLIO_COMPANY identity with no founder reference, or whose
\* founder has no company or is gone, is never admitted by the guard of an
\* admin-or-own route.
C6_UnlinkedDenied ==
    \A s \in Slots :
        LET r == reqs[s] IN
          (OnOwnRoute(r) /\ IsPortfolio(r) /\ CompanyOf(r.user) \in {Undefined, Null})
          => ~Admitted(r)

\* C7: a request whose token names a user that has been deleted is answered
\* by authenticateToken and reaches neither a guard nor a handler.
C7_DeletedUserRejected ==
    [][\A s \in Slots :
          (AuthStep(s) /\ reqs[s].tok.kind = "ok" /\ getUserById(reqs[s].tok.uid) = {})
          => Refused(reqs'[s]) /\ reqs'[s].status = 401 /\ reqs'[s].user = NoUser]_vars
C7_Witness ==
    \E s \in Slots :
        /\ reqs[s].tok.kind = "ok" /\ reqs[s].tok.uid = "id1" /\ getUserById("id1") = {}
        /\ reqs[s].route = "getAllCompanies"
        /\ Refused(reqs[s]) /\ reqs[s].status = 401

\* C8: behind requireRole(role) a handler runs only for an identity of that
\* role and every other authenticated identity is answered 403; the two
\* mentor read routes answer every authenticated identity.
RoleGated(r) == r.route \in RouteNames /\ Routes[r.route].gate \in Roles
C8_RoleGate ==
    \A s \in Slots :
        LET r == reqs[s] IN
          /\ (RoleGated(r) /\ (Admitted(r) \/ r.ran)) => r.user.role = Routes[r.route].gate
          /\ (RoleGated(r) /\ Refused(r) /\ r.user # NoUser)
               => r.status = 403 /\ r.user.role # Routes[r.route].gate
          /\ (r.route \in {"getAllBrainTrustMentors", "getBrainTrustMentorById"}
                /\ r.user # NoUser) => ~Refused(r)
C8_Witness ==
    \E s \in Slots :
        /\ reqs[s].route = "deleteCompany" /\ IsPortfolio(reqs[s])
        /\ Refused(reqs[s]) /\ reqs[s].status = 403

\* C9: every company has at most one admin snapshot.
C9_OneSnapshotPerCompany ==
    \A c \in Ids(companies) : Cardinality(getAdminSnapshotByCompanyId(c)) <= 1

\* C10: the snapshot step of a nested update creates the company's snapshot
\* when it has none, and otherwise updates the one it has: afterwards the
\* company has exactly one snapshot, with the id it had before when there was
\* one, and with the status the payload gave.
SnapshotStep(s) == reqs[s].pc = "nSnapWrite" /\ reqs'[s].pc = "nReply"
GivenStatus(x) == IF x.status = Undefined THEN {} ELSE {x.status}
C10_SnapshotCreateThenUpdate ==
    [][\A s \in Slots :
          SnapshotStep(s) =>
            LET c == reqs[s].pid
                before == getAdminSnapshotByCompanyId(c)
                after == {x \in adminSnapshots' : x.companyId = c} IN
              /\ Cardinality(after) = 1
              /\ before = {} => Ids(after) \cap Ids(adminSnapshots) = {}
              /\ before # {} => Ids(after) = Ids(before)
              /\ \A x \in after :
                   GivenStatus(reqs[s].payload.adminSnapshot[1]) \subseteq {x.status}]_vars
C10_Witness ==
    /\ nreq = 2
    /\ reqs["s1"].pc = "done" /\ reqs["s1"].status = 200
    /\ reqs["s1"].payload.adminSnapshot = Snapshot("ON_HOLD", Undefined)
    /\ getAdminSnapshotByCompanyId("id1") =
         {[id |-> "id1", companyId |-> "id1", status |-> "ON_HOLD", investmentUSD |-> "b"]}

\* The request in slot s takes a step of the nested update.
NestedPcs ==
    {"nCompany", "nFounderRead", "nFounderWrite", "nFundraising", "nRevenue", "nSnapRead",
     "nSnapWrite", "nReply"}
NestedStep(s) == reqs[s].pc \in NestedPcs /\ reqs'[s] # reqs[s]
\* The step wrote to the store and the handler goes on.
WroteAt(s, pc) == reqs[s].pc = pc /\ reqs'[s] # reqs[s] /\ reqs'[s].pc # "done"
\* The handler leaves the loop over an array after its last element.
LeavesLoop(s, pc) == WroteAt(s, pc) /\ reqs'[s].pc # pc

CompanyFields(p) == [legalName |-> p.legalName, website |-> p.website]
HasCompanyField(p) == p.legalName # Undefined \/ p.website # Undefined

\* C12: a nested update whose payload has any top-level company field
\* enters the company sub-part, and that sub-part overwrites the fields
\* present in the company row and leaves the other fields and rows alone.
C12_CompanyFieldsApplied ==
    [][\A s \in Slots :
          /\ (Handling(s, "patchCompany") /\ reqs'[s] # reqs[s]
                /\ HasCompanyField(reqs'[s].payload))
               => reqs'[s].pc = "nCompany"
          /\ WroteAt(s, "nCompany") =>
               companies' = {IF c.id = reqs[s].pid
                             THEN Patch(c, CompanyFields(reqs[s].payload)) ELSE c :
                               c \in companies}]_vars

\* C13: the founder sub-part of a nested update updates one of the founders
\* the path's company already has and creates none, or, when the company has
\* none, creates exactly one founder linked to the path's company; no step
\* of the nested update touches a founder of another company.
C13_FounderUpdateOrCreate ==
    [][\A s \in Slots :
          LET r == reqs[s]
              had == RowsByCompany(founders, r.pid) IN
            /\ NestedStep(s) => OthersOf(founders, r.pid) \subseteq founders'
            /\ WroteAt(s, "nFounderWrite") =>
                 IF had # {}
                 THEN \E f \in had :
                        founders' = (founders \ {f}) \cup {Patch(f, r.payload.founder[1])}
                 ELSE \E row \in founders' :
                        /\ row.id \notin Ids(founders)
                        /\ row.companyId = r.pid
                        /\ row.firstName = r.payload.founder[1].firstName
                        /\ founders' = founders \cup {row}]_vars
\* A founder was created for the company that had none, and a second update
\* of that company updated this founder.
C13_Witness ==
    /\ nreq = 2
    /\ reqs["s1"].pc = "done" /\ reqs["s1"].status = 200 /\ reqs["s1"].pid = "id2"
    /\ reqs["s1"].payload.founder = Founder(Undefined)
    /\ RowsByCompany(founders, "id2") = {[id |-> "id4", firstName |-> "b", companyId |-> "id2"]}
    /\ nextId.founders = 5

\* The sub-part the handler is at cannot be applied: its object is invalid.
InvalidAt(r) ==
    CASE r.pc = "nCompany" -> ~CompanyFieldsOk(r.payload)
      [] r.pc = "nFounderWrite" -> ~FounderOk(r.payload.founder[1], r.local.founder # Undefined)
      [] r.pc = "nFundraising" -> ~RoundOk(r.payload.fundraising[r.local.i + 1])
      [] r.pc = "nRevenue" -> ~YearOk(r.payload.revenue[r.local.i + 1])
      [] r.pc = "nSnapWrite" ->
           ~SnapshotOk(r.payload.adminSnapshot[1], r.local.snapshot # Undefined)
      [] OTHER -> FALSE
PartRank(pc) ==
    CASE pc = "nCompany" -> 1 [] pc = "nFounderRead" -> 2 [] pc = "nFounderWrite" -> 2
      [] pc = "nFundraising" -> 3 [] pc = "nRevenue" -> 4 [] pc = "nSnapRead" -> 5
      [] pc = "nSnapWrite" -> 5 [] OTHER -> 6

\* C14: the nested update goes through its sub-parts in the order company
\* fields, founder, fundraising, revenue, adminSnapshot; the step at which a
\* sub-part fails writes nothing, undoes nothing, and ends the request with
\* one 400 response, so that what was written before stays and no later
\* sub-part is applied.
C14_NoRollback ==
    [][\A s \in Slots :
          NestedStep(s) =>
            /\ PartRank(reqs'[s].pc) >= PartRank(reqs[s].pc)
            /\ InvalidAt(reqs[s]) =>
                 /\ UNCHANGED db
                 /\ reqs'[s].pc = "done" /\ reqs'[s].status = 400]_vars
\* The second fundraising element was invalid: the founder update and the
\* first round are in the store, the snapshot was never written.
C14_Witness ==
    /\ nreq = 1
    /\ reqs["s1"].pc = "done" /\ reqs["s1"].status = 400 /\ reqs["s1"].pid = "id1"
    /\ reqs["s1"].payload.fundraising = <<Round("b"), Round(Invalid)>>
    /\ \E f \in RowsByCompany(founders, "id1") : f.firstName = "b"
    /\ [id |-> "id3", amountUSD |-> "b", companyId |-> "id1"] \in fundraising
    /\ adminSnapshots = {}

\* The path of the request names a row that is not there (GET, PUT and
\* DELETE routes).
MissingResource(r) ==
    /\ r.route \in RouteNames
    /\ Registered[r.route].verb \in {"GET", "PUT", "DELETE"}
    /\ Routes[r.route].param # "none"
    /\ r.pid \notin Ids(ParamTable(r.route))
HandlerStep(s) == Admitted(reqs[s]) /\ reqs'[s].pc = "done"

\* C15: a handler that is asked for a company, founder, fundraising round,
\* revenue record or mentor that does not exist answers 404 (or 400 when the
\* body fails validation before the lookup), never a success status.
C15_MissingIs404 ==
    [][\A s \in Slots :
          (HandlerStep(s) /\ MissingResource(reqs[s]) /\ reqs'[s].status # 400)
          => reqs'[s].status = 404]_vars

\* C16: a PATCH of /api/companies/:id by an admin is answered by the nested
\* updateCompany behind authenticateToken and requireAdminOrOwnCompany, and
\* a PUT of /api/companies/:id runs the simple updateCompany only.
C16_PatchIsRouted ==
    \A s \in Slots :
        LET r == reqs[s] IN
          /\ (r.verb = "PATCH" /\ r.path = "/api/companies/:id" /\ r.pc = "done"
                /\ r.tok \in AdminTokens)
               => r.ran /\ r.route = "patchCompany" /\ r.user.role = ADMIN
          /\ (r.verb = "PUT" /\ r.path = "/api/companies/:id" /\ r.ran)
               => r.route = "updateCompany"

\* C17: a createCompany answered 201 added exactly one company row and one
\* founder row, the founder linked to the company, and the response carries
\* both.
C17_CreateCompanyWithFounder ==
    [][\A s \in Slots :
          (Handling(s, "createCompany") /\ reqs'[s].pc = "done" /\ reqs'[s].status = 201)
          => /\ reqs[s].user.role = ADMIN
             /\ \E c \in companies', f \in founders' :
                  /\ c.id \notin Ids(companies) /\ companies' = companies \cup {c}
                  /\ f.id \notin Ids(founders) /\ founders' = founders \cup {f}
                  /\ f.companyId = c.id
                  /\ reqs'[s].res.company = c.id
                  /\ reqs'[s].res.founder = <<f>>]_vars
C17_Witness ==
    \E s \in Slots :
        /\ reqs[s].route = "createCompany" /\ reqs[s].status = 201
        /\ reqs[s].res.company = "id3"
        /\ reqs[s].res.founder = <<[id |-> "id4", firstName |-> "b", companyId |-> "id3"]>>
        /\ RowsByCompany(founders, "id3") = {[id |-> "id4", firstName |-> "b", companyId |-> "id3"]}
        /\ "id3" \in Ids(companies)

\* The company the last createCompany of slot s1 answered with.
Created == reqs["s1"]
IsCreated(id) ==
    /\ Created.route = "createCompany" /\ Created.pc = "done" /\ Created.status = 201
    /\ Created.res.company = id

\* C18: reading back, through the composite read, the company a createCompany
\* has just created returns the founder that was submitted with it.
C18_FounderRoundTrip ==
    [][(Handling("s2", "getCompanyById") /\ reqs'["s2"].pc = "done"
          /\ IsCreated(reqs["s2"].pid))
       => /\ reqs'["s2"].status = 200
          /\ reqs'["s2"].res.company = reqs["s2"].pid
          /\ Len(reqs'["s2"].res.founder) = 1
          /\ reqs'["s2"].res.founder[1].firstName = Created.body.val
          /\ reqs'["s2"].res.founder = Created.res.founder]_vars
C18_Witness ==
    /\ IsCreated("id3") /\ Created.body.val = "b"
    /\ reqs["s2"].route = "getCompanyById" /\ reqs["s2"].pid = "id3"
    /\ reqs["s2"].status = 200
    /\ reqs["s2"].res.founder = <<[id |-> "id4", firstName |-> "b", companyId |-> "id3"]>>

\* The stored users a login body names with the right password.
Matching(b) == {u \in users : u.email = b.email /\ u.passwordHash = BcryptHash(b.password)}

\* C19: login issues a token only for a stored user whose password matches,
\* and the token is that user's; a well-formed body with a wrong password or
\* an unknown email is answered 401 "Invalid credentials" without a token.
C19_LoginCredentials ==
    [][\A s \in Slots :
          (Handling(s, "login") /\ reqs'[s].pc = "done") =>
            LET b == reqs'[s].body
                res == reqs'[s].res IN
              /\ res.token # NoJwt
                   => reqs'[s].status = 200 /\ \E u \in Matching(b) : res.token.uid = u.id
              /\ (loginSchema(b) /\ Matching(b) = {})
                   => /\ reqs'[s].status = 401
                      /\ res.message = "Invalid credentials"
                      /\ res.token = NoJwt
              /\ (loginSchema(b) /\ Matching(b) # {}) => res.token # NoJwt]_vars
C19_Witness ==
    \E s \in Slots :
        /\ reqs[s].route = "login" /\ reqs[s].pc = "done"
        /\ reqs[s].body.email = "p@c1" /\ reqs[s].body.password = "wrong"
        /\ loginSchema(reqs[s].body) /\ getUserByEmail("p@c1") # {}
        /\ reqs[s].status = 401 /\ reqs[s].res.message = "Invalid credentials"
        /\ reqs[s].res.token = NoJwt

\* C20: getMyCompany answers a user without founder reference 400 "No
\* associated founder", and when it answers 200 the company it returns is
\* the company of the caller's own founder.
C20_MyCompanyIsOwn ==
    [][\A s \in Slots :
          (Handling(s, "getMyCompany") /\ reqs'[s].pc = "done") =>
            LET u == reqs[s].user
                res == reqs'[s].res IN
              /\ IsPortfolio(reqs[s])
              /\ u.founderId = Undefined
                   => reqs'[s].status = 400 /\ res.message = "No associated founder"
              /\ reqs'[s].status = 200
                   => /\ res.company = CompanyOf(u) /\ res.company \in Ids(companies)
                      /\ \E f \in RowsById(founders, u.founderId) : res.founder = <<f>>]_vars
C20_Witness ==
    \E s \in Slots :
        /\ reqs[s].route = "getMyCompany" /\ reqs[s].user.email = "q@none"
        /\ reqs[s].user.founderId = Undefined
        /\ reqs[s].ran /\ reqs[s].status = 400
        /\ reqs[s].res.message = "No associated founder"

\* The rows that reference company c, and the step in which deleteCompany
\* answers.
ReferencesTo(c) ==
    RowsByCompany(founders, c) \cup RowsByCompany(fundraising, c)
      \cup RowsByCompany(revenue, c) \cup RowsByCompany(adminSnapshots, c)
DeleteCompanyStep(s) == Handling(s, "deleteCompany") /\ reqs'[s].pc = "done"
OnlyCompaniesChange ==
    UNCHANGED <<users, founders, fundraising, revenue, adminSnapshots, mentors>>
NoOrphans ==
    \A x \in founders \cup fundraising \cup revenue \cup adminSnapshots :
        x.companyId = Null \/ x.companyId \in Ids(companies)

\* C21 (as stated): deleteCompany removes the company row and leaves every
\* row that references the company as it is, so that rows are left whose
\* companyId names no company.
C21_DeleteLeavesOrphans ==
    [][\A s \in Slots :
          (DeleteCompanyStep(s) /\ reqs[s].pid \in Ids(companies))
          => /\ reqs[s].pid \notin Ids(companies')
             /\ OnlyCompaniesChange
             /\ reqs'[s].status = 204]_vars

\* C21 (amended): deleteCompany changes no founder, fundraising, revenue or
\* snapshot row; it removes the company row only when no such row references
\* the company, and is answered 500 with the company kept when one does; no
\* row's companyId ever names a company that is gone.
C21_DeleteOnlyUnreferenced ==
    [][/\ NoOrphans /\ NoOrphans'
       /\ \A s \in Slots :
            DeleteCompanyStep(s) =>
              /\ OnlyCompaniesChange
              /\ ReferencesTo(reqs[s].pid) # {}
                   => companies' = companies /\ reqs'[s].status = 500
              /\ ReferencesTo(reqs[s].pid) = {}
                   => /\ companies' = {c \in companies : c.id # reqs[s].pid}
                      /\ reqs'[s].status = 204]_vars
C21_Witness ==
    /\ reqs["s1"].route = "deleteCompany" /\ reqs["s1"].pid = "id2"
    /\ reqs["s1"].status = 204
    /\ Ids(companies) = {"id1"}
    /\ ReferencesTo("id2") = {}
    /\ ReferencesTo("id1") # {}

\* The value a company write leaves in a field: the payload's when it gives
\* one, else the value the row had (the last one written by anyone).
Written(given, had) == IF given # Undefined THEN given ELSE had

\* C22: two nested updates of one company interleave freely: a step of one is
\* never disabled or failed by the other; company rows change only at a
\* nested update's company write, and that write leaves in each field it
\* names its own value and in every other field and row what was there, so
\* that each field holds the value of the last write to it.
C22_LastWriterWins ==
    [][/\ companies' # companies => \E s \in Slots : WroteAt(s, "nCompany")
       /\ \A s \in Slots :
            LET r == reqs[s] IN
              /\ r.pc \in NestedPcs => ENABLED Patch_(s)
              /\ (NestedStep(s) /\ reqs'[s].pc = "done" /\ reqs'[s].status # 200)
                   => InvalidAt(r) \/ r.pid \notin Ids(companies)
              /\ WroteAt(s, "nCompany") =>
                   companies' =
                     {IF c.id = r.pid
                      THEN [c EXCEPT !.legalName = Written(r.payload.legalName, @),
                                     !.website = Written(r.payload.website, @)]
                      ELSE c : c \in companies}]_vars
\* Slot s2 wrote both fields of company id1, then slot s1 wrote its legal
\* name: the name is s1's and the website still s2's.
C22_Witness ==
    /\ \A s \in Slots : reqs[s].pc = "done" /\ reqs[s].status = 200 /\ reqs[s].pid = "id1"
    /\ reqs["s1"].payload.legalName = "b" /\ reqs["s1"].payload.website = Undefined
    /\ reqs["s2"].payload.legalName = "c" /\ reqs["s2"].payload.website = "c"
    /\ [id |-> "id1", legalName |-> "b", website |-> "c"] \in companies

UniqueEmails == \A u, v \in users : u.email = v.email => u = v
RegisterStep(s) == Handling(s, "register") /\ reqs'[s].pc = "done"

\* C23: no two users share an email; register answers a well-formed body
\* whose email is taken 400 "User already exists" and adds no user; a user
\* row is added only by register, run for an ADMIN.
C23_UniqueEmails ==
    [][/\ UniqueEmails /\ UniqueEmails'
       /\ ~(users' \subseteq users)
            => \E s \in Slots : RegisterStep(s) /\ reqs[s].user.role = ADMIN
       /\ \A s \in Slots :
            (RegisterStep(s) /\ insertUserSchema(reqs'[s].body)
               /\ \E u \in users : u.email = reqs'[s].body.email)
            => /\ reqs'[s].status = 400
               /\ reqs'[s].res.message = "User already exists"
               /\ reqs'[s].res.token = NoJwt
               /\ users' = users]_vars
C23_Witness ==
    \E s \in Slots :
        /\ reqs[s].route = "register" /\ reqs[s].ran /\ reqs[s].user.role = ADMIN
        /\ reqs[s].body.email = "p@c1" /\ insertUserSchema(reqs[s].body)
        /\ reqs[s].status = 400 /\ reqs[s].res.message = "User already exists"
        /\ Cardinality(users) = 5

\* authenticateToken passed the request of slot s on.
AuthPassed(s) == AuthStep(s) /\ ~Refused(reqs'[s])

\* C24: a token appears in a response only at a login or register step and
\* carries the id, email and role of a stored user and an expiry 24 hours
\* after the step; authenticateToken passes a token on only before its
\* expiry, so less than 24 hours after it was issued; the token a request
\* carries is never changed.
C24_TokenLifetime ==
    [][\A s \in Slots :
          /\ reqs'[s].res.token \notin {NoJwt, reqs[s].res.token}
               => /\ Handling(s, "login") \/ Handling(s, "register")
                  /\ \E u \in users' :
                       reqs'[s].res.token =
                         [uid |-> u.id, email |-> u.email, role |-> u.role,
                          iat |-> now, exp |-> now + TokenLife]
          /\ AuthPassed(s) => now < reqs[s].tok.exp
          /\ (AuthPassed(s) /\ reqs[s].tok = Bearer(reqs["s1"].res.token))
               => now - reqs["s1"].res.token.iat < TokenLife
          /\ ~Arrives(s) => reqs'[s].tok = reqs[s].tok]_vars
\* The token issued to p@c1 at hour 0 is refused at hour 24.
C24_Witness ==
    /\ reqs["s1"].route = "login" /\ reqs["s1"].res.token.uid = "id2"
    /\ reqs["s1"].res.token.iat = 0 /\ reqs["s1"].res.token.exp = 24
    /\ now = 24
    /\ reqs["s2"].tok = Bearer(reqs["s1"].res.token)
    /\ getUserById("id2") # {}
    /\ Refused(reqs["s2"]) /\ reqs["s2"].status = 403

\* A guard of the request in slot s decides.
GuardStep(s, pc) == reqs[s].pc = pc /\ reqs'[s] # reqs[s]

\* C25: authenticateToken takes the role and the founder reference of the
\* request's user from the user row as it is stored at that moment, and the
\* guards decide by that role and by the founder row as it is stored then,
\* whatever the token was issued with.
C25_DecidedFromStore ==
    [][\A s \in Slots :
          /\ AuthPassed(s) =>
               \E u \in users :
                  /\ u.id = reqs[s].tok.uid
                  /\ reqs'[s].user =
                       [id |-> u.id, email |-> u.email, role |-> u.role,
                        founderId |-> IF u.founderId = Null THEN Undefined ELSE u.founderId]
          /\ GuardStep(s, "role") =>
               (Admitted(reqs'[s]) <=> reqs[s].user.role = RouteOf(reqs[s].route).gate)
          /\ GuardStep(s, "own") =>
               (Admitted(reqs'[s]) <=>
                  \/ reqs[s].user.role = ADMIN
                  \/ /\ reqs[s].user.role = PORTFOLIO_COMPANY
                     /\ \E f \in founders :
                          /\ f.id = reqs[s].user.founderId
                          /\ f.companyId = GuardCompanyId(reqs'[s]))]_vars
\* p@c1 signed in as a portfolio user, its row was then made ADMIN, and the
\* token of the sign-in opened the admins' list of companies.
C25_Witness ==
    /\ reqs["s1"].res.token.uid = "id2" /\ reqs["s1"].res.token.role = PORTFOLIO_COMPANY
    /\ \E u \in getUserById("id2") : u.role = ADMIN
    /\ reqs["s2"].tok = Bearer(reqs["s1"].res.token)
    /\ reqs["s2"].route = "getAllCompanies" /\ reqs["s2"].ran /\ reqs["s2"].status = 200
    /\ reqs["s2"].user.role = ADMIN

\* The request in slot s is being served; the guard that comes last in front
\* of its handler.
InFlight(s) == reqs[s].pc \notin {"idle", "done"}
LastGuard(route) == IF RouteOf(route).gate = "auth" THEN "auth" ELSE AfterAuth(route)

CreateRoutes == {"createCompany", "createFundraising", "createRevenue"}
C27_InvalidCreateWritesNothing ==
    [][\A s \in Slots :
          (HandlerStep(s) /\ reqs[s].route \in CreateRoutes /\ reqs'[s].status = 400)
          => UNCHANGED db]_vars
\* A createCompany with valid company fields and an invalid founder object
\* was answered 400.
C27_Witness ==
    \E s \in Slots :
       /\ reqs[s].route = "createCompany" /\ reqs[s].ran /\ reqs[s].status = 400
       /\ insertPortfolioCompanySchema(reqs[s].body, FALSE)

\* The founders of company cid.
FoundersOf(rows, cid) == {f \in rows : f.companyId = cid}

\* C29: a step of a nested update never takes a company from at most one
\* founder to more than one.
C29_AtMostOneFounder ==
    [][\A c \in companies :
          Cardinality(FoundersOf(founders, c.id)) <= 1
          => Cardinality(FoundersOf(founders', c.id)) <= 1]_vars

\* C28: getCompanyById changes no row; it answers 404 exactly when no company
\* has the id, and otherwise returns that company with one of its founders
\* (none if it has none), exactly its fundraising rows, exactly its revenue
\* rows and one of its admin snapshots (none if it has none).
C28_CompositeRead ==
    [][\A s \in Slots :
          (Handling(s, "getCompanyById") /\ reqs'[s].pc = "done")
          => LET id == reqs[s].pid
                 res == reqs'[s].res
             IN /\ UNCHANGED db
                /\ IF id \notin Ids(companies)
                   THEN reqs'[s].status = 404 /\ res.company = Undefined
                   ELSE /\ reqs'[s].status = 200 /\ res.company = id
                        /\ IF FoundersOf(founders, id) = {} THEN res.founder = <<>>
                           ELSE \E f \in FoundersOf(founders, id) : res.founder = <<f>>
                        /\ res.fundraising = {r \in fundraising : r.companyId = id}
                        /\ res.revenue = {r \in revenue : r.companyId = id}
                        /\ IF \A a \in adminSnapshots : a.companyId # id
                           THEN res.adminSnapshot = <<>>
                           ELSE \E a \in adminSnapshots :
                                   a.companyId = id /\ res.adminSnapshot = <<a>>]_vars
\* A company updated with fundraising rounds and a snapshot was read back
\* while another company has fundraising rows of its own.
C28_Witness ==
    /\ reqs["s2"].route = "getCompanyById" /\ reqs["s2"].status = 200
    /\ Cardinality(reqs["s2"].res.fundraising) >= 2
    /\ reqs["s2"].res.adminSnapshot # <<>>
    /\ \E r \in fundraising : r.companyId # reqs["s2"].pid

\* The browser state c shows a protected page only to a settled, signed-in
\* user of the required role, shows nothing and is about to redirect in every
\* other settled state of a protected route, and shows the pages of /admin
\* and /dashboard only to ADMIN and PORTFOLIO_COMPANY users.
Guarded_(c) ==
    LET route == RouteFor(c.path)
        allowed == /\ ~c.isLoading /\ c.user # Undefined
                   /\ route.requireRole # Undefined => c.user = route.requireRole
    IN /\ c.shown \in {"AdminDashboard", "PortfolioDashboard"} => allowed
       /\ (route.protected /\ ~c.isLoading /\ ~allowed)
             => c.shown = "nothing"
                /\ RedirectsToLogin(c.isLoading, c.user, route.requireRole)
       /\ (c.path = "/admin" /\ c.shown = "AdminDashboard") => c.user = ADMIN
       /\ (c.path = "/dashboard" /\ c.shown = "PortfolioDashboard")
             => c.user = PORTFOLIO_COMPANY

\* C30: every browser state is guarded; the redirect of ProtectedRoute goes
\* to /login; a successful login signs in the user with the stored role of
\* the account and then sends an ADMIN to /admin and any other role to
\* /dashboard.
C30_ProtectedRoutes ==
    [][/\ Guarded_(client) /\ Guarded_(client')
       /\ (RouteFor(client.path).protected /\ ~client.isLoading
             /\ client.shown = "nothing") => ENABLED Redirect
       /\ Redirect => client'.path = "/login" /\ client'.shown = "Login"
       /\ (client.pending = Undefined /\ client'.pending # Undefined)
             => /\ reqs["s1"].status = 200
                /\ \E u \in getUserByEmail(reqs["s1"].body.email) :
                      client'.user = u.role /\ client'.pending = u.role
       /\ (client.pending # Undefined /\ client'.pending = Undefined
             /\ client'.isLoading = client.isLoading)
             => client'.path = IF client.pending = ADMIN THEN "/admin" ELSE "/dashboard"]_vars
\* A portfolio user who signed in was sent to /dashboard and sees it.
C30_Witness ==
    /\ client.user = PORTFOLIO_COMPANY /\ client.pending = Undefined /\ ~client.isLoading
    /\ client.path = "/dashboard" /\ client.shown = "PortfolioDashboard"

====
